---- MODULE Spec2Model ----
(***************************************************************************)
(* Executor state machine of the custom-scheme layer of saucer, as         *)
(* implemented by the three backends of this source tree:                  *)
(*   "wkg"  WebKitGTK  (src/src/wkg.scheme.impl.cpp, lines 1-224)          *)
(*   "wk"   WKWebView  (src/src/wkg.scheme.impl.cpp, lines 226-558)        *)
(*   "qt"   Qt         (src/unnamed/part_003)                              *)
(* One request is dispatched; application threads call resolve, reject,    *)
(* start, write and finish on copies of its executor.  Every access to a   *)
(* shared location (the two atomic flags, write_fd, the task table, the    *)
(* locked request pointer, the stream device) is one step of the model.    *)
(***************************************************************************)
EXTENDS Integers, Sequences, FiniteSets, TLC

\* ------------------------------------------------------------------------
\* Bounds of the model
\* ------------------------------------------------------------------------
\* calls made on the executor when the application uses it from one thread
\* at a time
MaxSeqCalls == 4
\* calls made on the executor when two threads use it at the same time
MaxConcCalls == 3
\* bytes in the body of a native request
MaxBody == 2
\* readData calls made on the stream device
MaxReads == 5
\* copies of the executor the application makes
MaxCopies == 2
\* elements pushed into a DataQueue
MaxPush == 3
\* pops made on a DataQueue
MaxPops == 4
\* bytes in a chunk handed to write()
MaxChunk == 3
\* write() calls whose ::write loop is followed call by call
MaxWrites == 1

\* ------------------------------------------------------------------------
\* Program constants
\* ------------------------------------------------------------------------
not_found == 404
invalid == 400
denied == 401
failed == -1
Errors == {not_found, invalid, denied, failed}

\* response::status / stream_response::status default
DefaultStatus == 200

\* executor::impl::write_fd initial value, and the value stored after close
NoFd == -1
\* the descriptor numbers pipe() can hand out for the write end
Fds == {3}

\* the error kinds the application rejects with
RejectWith == {not_found, failed}
\* the response the application resolves with: "no content", with a MIME
\* type and a header
ResolveWith ==
    {[status |-> 204, mime |-> "text/plain", headers |-> [n \in {"X-Id"} |-> "7"],
      data |-> <<>>]}
\* the stream_response the application starts a stream with
StartWith ==
    {[status |-> DefaultStatus, mime |-> "text/event-stream",
      headers |-> [n \in {"Cache-Control"} |-> "no-cache"]]}

\* the webview instances native requests come from
Instances == {"w1", "w2"}
\* the resolvers the application registers
Resolvers == {"r1", "r2"}
\* the header names and values of a native request; a value may read like a
\* name
HeaderNames == {"Accept", "Origin"}
HeaderValues == {"*", "Origin"}
RequestHeaders == UNION {[D -> HeaderValues] : D \in SUBSET HeaderNames}
Methods == {"GET", "POST"}
\* the bytes of a request body, as unsigned values
Bytes == {0, 200}
\* requestBody() of a native request: absent, or a device that opens or not
\* and holds the bytes
Bodies ==
    {[present |-> FALSE, opens |-> FALSE, bytes |-> <<>>]} \cup
    [present : {TRUE}, opens : BOOLEAN,
     bytes : UNION {[1 .. n -> Bytes] : n \in 0 .. MaxBody}]
\* the native requests
Requests ==
    [url : {"app://host/write"}, method : Methods, headers : RequestHeaders,
     body : Bodies]

\* the sizes the engine asks readData for
ReadSizes == {1, 3}
Backends == {"wkg", "wk", "qt"}
Threads == {"t1", "t2"}
\* key of the request in SchemeHandler::m_tasks (task.hash)
Handle == "h"
\* the values of task.hash: NSObject's hash is the address of the object
Hashes == {"h", "g"}
\* the descriptors pipe() may return to a second request
OtherFds == Fds \cup {4}

VARIABLES
    backend,     \* which adapter serves the request
    concurrent,  \* TRUE: calls of the two threads may overlap
    started,     \* executor::impl::started
    finished,    \* executor::impl::finished
    write_fd,    \* wkg: executor::impl::write_fd
    pipe,        \* wkg: kernel state of the pipe's write end
    tasks,       \* wk: keys present in SchemeHandler::m_tasks
    mainq,       \* wk: blocks queued on the main dispatch queue
    request,     \* qt: value of the locked QWebEngineUrlRequestJob pointer
    device,      \* qt: the stream_device created as child of the job
    connected,   \* the native request is alive and its consumer reads
    crashed,     \* the process was killed by undefined behaviour
    m_callbacks, \* the resolver of each instance that has one (qt: handler::resolver)
    native,      \* the native requests delivered so far (at most one), with the
                 \* resolver each was handed to
    invoked,     \* how many times a resolver was invoked
    body,        \* qt: request::impl::body
    result,      \* what the last accessor call on the Request did
    m_buffer,    \* qt: stream_device::m_buffer, the bytes pushed and not yet read
    reads,       \* qt: what the readData calls made so far returned
    other,       \* a second request in flight, as far as this one can reach it
    pc,          \* per thread: position inside the current call
    cur,         \* per thread: index in hist of the current call
    hist,        \* calls made so far, in order of their first step
    log,         \* native calls executed so far, in order
    data,        \* wkg write: the bytes of the stash handed to write()
    ptr,         \* wkg write: how far ptr has advanced into data
    remaining,   \* wkg write: the local of that name
    written,     \* wkg write: what the last ::write returned
    errno,       \* wkg write: errno after the last ::write
    reader,      \* qt: where the engine's thread is inside readData
    handler,     \* qt: how far the destruction of the job has come
    copies,      \* the copies of the executor: those alive, those ever made
    m_queue,     \* DataQueue::m_queue
    m_closed,    \* DataQueue::m_closed
    pushed,      \* DataQueue: how many elements were pushed
    pops,        \* DataQueue: what the pops returned, in the order of the lock
    at           \* DataQueue: where the pushing, closing and waiting threads are

vars == <<backend, concurrent, started, finished, write_fd, pipe, tasks, mainq,
          request, device, connected, crashed, m_callbacks, native, invoked, body,
          result, m_buffer, reads, other, pc, cur, hist, log,
          data, ptr, remaining, written, errno, reader, handler, copies,
          m_queue, m_closed, pushed, pops, at>>

flags == <<started, finished>>
transport == <<write_fd, pipe, tasks, mainq, request, device>>
stream == <<m_buffer, reads>>
dispatch == <<m_callbacks, native, invoked, body, result, reads>>
\* the locals of the ::write loop
loop == <<data, ptr, remaining, written, errno>>
\* what the steps of the executor's state machine leave alone
\* the reader of the stream device and the job's destruction
wake == <<reader, handler>>
\* the DataQueue of the prototypes
queue == <<m_queue, m_closed, pushed, pops, at>>
detail == <<loop, wake, copies, queue>>

\* ------------------------------------------------------------------------
\* The five-state reading of the two flags
\* ------------------------------------------------------------------------
State(s, f) ==
    IF ~s /\ ~f THEN "Idle"
    ELSE IF s /\ ~f THEN "Streaming"
    ELSE IF ~s /\ f THEN "Terminal"    \* Resolved or Rejected
    ELSE "Finished"

Ops == {"resolve", "reject", "start", "write", "finish"}

\* the arguments of a call; the chunk handed to write() is numbered by the
\* call, so that every chunk is different from the others
Args(o) ==
    IF o = "resolve" THEN ResolveWith
    ELSE IF o = "reject" THEN Errors
    ELSE IF o = "start" THEN StartWith
    ELSE IF o = "write" THEN {Len(hist) + 1}
    ELSE {0}

MaxCalls == IF concurrent THEN MaxConcCalls ELSE MaxSeqCalls

\* the threads that call into the executor
Callers == IF concurrent THEN Threads ELSE {"t1"}

\* no accessor of the Request has been called
NoResult == [op |-> "none", v |-> <<>>, native |-> FALSE]

\* no second request has been dispatched
NoOther ==
    [live |-> FALSE, key |-> "none", started |-> FALSE, finished |-> FALSE,
     fd |-> NoFd, open |-> FALSE, foreign |-> FALSE]

\* the state after the request of instance w1, which has a resolver, was
\* dispatched: the resolver holds the executor and has made no call yet
DetailInit ==
    /\ data = <<>>
    /\ ptr = 0
    /\ remaining = 0
    /\ written = 0
    /\ errno = "none"
    /\ reader = [at |-> "out", max |-> 0]
    /\ handler = "none"
    /\ copies = [live |-> 1, made |-> 1]
    /\ m_queue = <<>>
    /\ m_closed = FALSE
    /\ pushed = 0
    /\ pops = <<>>
    /\ at = [pusher |-> "idle", closer |-> "idle", waiter |-> "out"]

Init ==
    /\ backend \in Backends
    /\ concurrent \in BOOLEAN
    /\ DetailInit
    /\ m_callbacks = [w \in {"w1"} |-> "r1"]
    /\ native = <<[view |-> "w1", known |-> TRUE, to |-> "r1",
                   req |-> [url |-> "app://host/write", method |-> "GET",
                            headers |-> <<>>,
                            body |-> [present |-> FALSE, opens |-> FALSE,
                                      bytes |-> <<>>]]]>>
    /\ invoked = 1
    /\ body = <<>>
    /\ result = NoResult
    /\ m_buffer = <<>>
    /\ reads = <<>>
    /\ other = NoOther
    /\ started = FALSE
    /\ finished = FALSE
    /\ write_fd = NoFd
    /\ pipe = "none"
    /\ tasks = IF backend = "wk" THEN {Handle} ELSE {}
    /\ mainq = <<>>
    /\ request = IF backend = "qt" THEN "job" ELSE "none"
    /\ device = IF backend = "qt" THEN [alive |-> TRUE, m_finished |-> FALSE]
                                  ELSE [alive |-> FALSE, m_finished |-> FALSE]
    /\ connected = TRUE
    /\ crashed = FALSE
    /\ pc = [t \in Threads |-> "idle"]
    /\ cur = [t \in Threads |-> 0]
    /\ hist = <<>>
    /\ log = <<>>

\* ------------------------------------------------------------------------
\* Bookkeeping shared by all operations
\* ------------------------------------------------------------------------
\* first step of a call: it is appended to hist with the state it observes.
\* The threads are interchangeable, so the first call is taken to be t1's.
Begin(t, o, a) ==
    /\ ~crashed
    /\ invoked > 0
    /\ t \in Callers
    /\ hist = <<>> => t = "t1"
    /\ pc[t] = "idle"
    /\ Len(hist) < MaxCalls
    /\ a \in Args(o)
    /\ hist' = Append(hist, [op |-> o, arg |-> a,
                             st |-> State(started, finished),
                             conn |-> connected])

\* where the call that begins with this step continues ("idle": it returned)
Enter(t, l) ==
    /\ pc' = [pc EXCEPT ![t] = l]
    /\ cur' = [cur EXCEPT ![t] = IF l = "idle" THEN 0 ELSE Len(hist) + 1]
    /\ UNCHANGED <<backend, concurrent, detail, dispatch, m_buffer, other>>

\* a later step of the call of thread t
At(t, l) == ~crashed /\ pc[t] = l

Step(t, l) ==
    /\ pc' = [pc EXCEPT ![t] = l]
    /\ cur' = [cur EXCEPT ![t] = IF l = "idle" THEN 0 ELSE @]
    /\ UNCHANGED <<backend, concurrent, detail, dispatch, hist>>

\* a later step that touches neither the stream device's buffer nor a
\* descriptor
Goto(t, l) == Step(t, l) /\ UNCHANGED <<m_buffer, other>>

\* a native call executed now by call i
Event(k, v, i, r) == [k |-> k, v |-> v, idx |-> i, r |-> r]
Emit(k, v, i, r) == log' = Append(log, Event(k, v, i, r))

\* the outcome of a call into the native request / its consumer
Alive == IF connected THEN "ok" ELSE "gone"

\* ------------------------------------------------------------------------
\* What each backend hands to its native layer for a response r and for a
\* stream_response s
\* ------------------------------------------------------------------------
\* NSMutableDictionary setObject:forKey: on the header dictionary h
setObject(h, key, value) ==
    [n \in DOMAIN h \cup {key} |-> IF n = key THEN value ELSE h[n]]

\* wkg: the response built from the memory stream of r.data, with
\* set_content_type, set_status and set_http_headers
wkg_response(r) ==
    [status |-> r.status, mime |-> r.mime, headers |-> r.headers, data |-> r.data]

\* wk: NSHTTPURLResponse with statusCode and headerFields, where Content-Type
\* and Content-Length are set after the headers of r; then the NSData
wk_response(r) ==
    [status |-> r.status,
     headers |-> setObject(setObject(r.headers, "Content-Type", r.mime),
                           "Content-Length", ToString(Len(r.data))),
     data |-> r.data]

\* qt: setAdditionalResponseHeaders, then reply(mime, buffer); the job takes
\* no status
qt_response(r) ==
    [mime |-> r.mime, headers |-> r.headers, data |-> r.data]

\* wkg: the response built on the read end of the pipe
wkg_head(s) ==
    [status |-> s.status, mime |-> s.mime, headers |-> s.headers]

\* wk: NSHTTPURLResponse with statusCode and headerFields, Content-Type set
\* after the headers of s
wk_head(s) ==
    [status |-> s.status, headers |-> setObject(s.headers, "Content-Type", s.mime)]

\* qt: setAdditionalResponseHeaders, then reply(mime, device)
qt_head(s) ==
    [mime |-> s.mime, headers |-> s.headers]

\* ------------------------------------------------------------------------
\* stream_device (qt)
\* ------------------------------------------------------------------------
\* the bytes of the chunk handed to write(): two bytes that occur in no
\* other chunk
data_of(v) == <<2 * v, 2 * v + 1>>

\* stream_device::push on the device pointer the executor holds.  The device
\* is a child of the request job and is deleted with it; a call on the
\* deleted device is undefined behaviour: the process dies or the call goes
\* through on freed memory.
push(t, v) ==
    IF device.alive
    THEN /\ m_buffer' = m_buffer \o data_of(v)
         /\ Emit("chunk", v, cur[t], Alive)
         /\ UNCHANGED <<device, crashed>>
    ELSE \/ /\ crashed' = TRUE
            /\ UNCHANGED <<device, m_buffer, log>>
         \/ /\ Emit("chunk", v, cur[t], "uaf")
            /\ UNCHANGED <<device, m_buffer, crashed>>

\* stream_device::close_write
close_write(t) ==
    IF device.alive
    THEN /\ device' = [device EXCEPT !.m_finished = TRUE]
         /\ Emit("eos", 0, cur[t], Alive)
         /\ UNCHANGED crashed
    ELSE \/ /\ crashed' = TRUE
            /\ UNCHANGED <<device, log>>
         \/ /\ Emit("eos", 0, cur[t], "uaf")
            /\ UNCHANGED <<device, crashed>>

\* what a readData of at most max bytes takes from the buffer b
taken_back(b, max) ==
    LET to_read == IF max < Len(b) THEN max ELSE Len(b)
    IN  [ret |-> to_read,
         data |-> SubSeq(b, Len(b) - to_read + 1, Len(b)),
         left |-> SubSeq(b, 1, Len(b) - to_read)]

\* "to_read = std::min(max, m_buffer.size())", copy_n from the front, erase
taken(b, max) ==
    LET to_read == IF max < Len(b) THEN max ELSE Len(b)
    IN  [ret |-> to_read,
         data |-> SubSeq(b, 1, to_read),
         left |-> SubSeq(b, to_read + 1, Len(b))]

\* stream_device::readData, called by the engine: it waits under the mutex
\* until there are bytes or the device was closed for writing
readData(max) ==
    /\ ~crashed
    /\ backend = "qt"
    /\ device.alive
    /\ Len(reads) < MaxReads
    /\ m_buffer # <<>> \/ device.m_finished
    /\ IF m_buffer = <<>>
       THEN /\ reads' = Append(reads, [ret |-> IF device.m_finished THEN -1 ELSE 0,
                                       data |-> <<>>])
            /\ UNCHANGED m_buffer
       ELSE /\ reads' = Append(reads, [ret |-> taken(m_buffer, max).ret,
                                       data |-> taken(m_buffer, max).data])
            /\ m_buffer' = taken(m_buffer, max).left
    /\ UNCHANGED <<backend, concurrent, detail, flags, transport, connected, crashed,
                   m_callbacks, native, invoked, body, result, other, pc, cur,
                   hist, log>>

\* ------------------------------------------------------------------------
\* the pipe (wkg)
\* ------------------------------------------------------------------------
\* close(m_impl->write_fd): write_fd is a plain int, so the value passed is
\* the one tested just before or the one stored now.  A call on a number
\* that this request's pipe no longer holds fails with EBADF, or it acts on
\* the descriptor of another request that was given the number since
sys_close(t) ==
    \E fd \in Fds \cup {write_fd} :
        IF fd = NoFd THEN UNCHANGED <<pipe, log, other>>
        ELSE IF pipe = "open"
        THEN /\ pipe' = "closed"
             /\ Emit("eos", 0, cur[t], Alive)
             /\ UNCHANGED other
        ELSE IF other.open /\ other.fd = fd
        THEN /\ other' = [other EXCEPT !.open = FALSE]
             /\ Emit("eos", 0, cur[t], "other")
             /\ UNCHANGED pipe
        ELSE /\ Emit("eos", 0, cur[t], "badfd")
             /\ UNCHANGED <<pipe, other>>

\* ::write(m_impl->write_fd, ptr, remaining) until the chunk is written
sys_write(t, v) ==
    \E fd \in Fds \cup {write_fd} :
        IF fd = NoFd THEN UNCHANGED <<log, other>>
        ELSE IF pipe = "open"
        THEN /\ Emit("chunk", v, cur[t], Alive)
             /\ UNCHANGED other
        ELSE IF other.open /\ other.fd = fd
        THEN /\ other' = [other EXCEPT !.foreign = TRUE]
             /\ Emit("chunk", v, cur[t], "other")
        ELSE /\ Emit("chunk", v, cur[t], "badfd")
             /\ UNCHANGED other

\* ------------------------------------------------------------------------
\* resolve: executor::resolve calls the lambda installed at dispatch
\* ------------------------------------------------------------------------
\* "impl->started ||": a started executor is not resolved
resolve(t, a) ==
    /\ Begin(t, "resolve", a)
    /\ Enter(t, IF started THEN "idle" ELSE "res_claim")
    /\ UNCHANGED <<flags, transport, connected, crashed, log>>

\* resolve_claim with the result of the exchange ignored
resolve_claim_unchecked(t) ==
    /\ At(t, "res_claim")
    /\ finished' = TRUE
    /\ Goto(t, "res_deliver")
    /\ UNCHANGED <<started, transport, connected, crashed, log>>

\* "|| impl->finished.exchange(true)": the claim of the delivery
resolve_claim(t) ==
    /\ At(t, "res_claim")
    /\ finished' = TRUE
    /\ Goto(t, IF finished THEN "idle" ELSE "res_deliver")
    /\ UNCHANGED <<started, transport, connected, crashed, log>>

\* wkg: webkit_uri_scheme_request_finish_with_response on the request
wkg_resolve_deliver(t) ==
    /\ backend = "wkg"
    /\ Emit("response", wkg_response(hist[cur[t]].arg), cur[t], Alive)
    /\ UNCHANGED <<tasks, crashed>>

\* wk: under the table's write lock; didReceiveResponse, didReceiveData and
\* didFinish on the task found in the table, then the entry is erased
wk_resolve_deliver(t) ==
    /\ backend = "wk"
    /\ IF Handle \notin tasks
       THEN UNCHANGED <<log, tasks, crashed>>
       ELSE IF connected
       THEN /\ Emit("response", wk_response(hist[cur[t]].arg), cur[t], Alive)
            /\ tasks' = tasks \ {Handle}
            /\ UNCHANGED crashed
       ELSE /\ crashed' = TRUE
            /\ UNCHANGED <<log, tasks>>

\* qt: under the request lock; reply() on the job unless the pointer is null
qt_resolve_deliver(t) ==
    /\ backend = "qt"
    /\ IF request = "job"
       THEN Emit("response", qt_response(hist[cur[t]].arg), cur[t], Alive)
       ELSE UNCHANGED log
    /\ UNCHANGED <<tasks, crashed>>

resolve_deliver(t) ==
    /\ At(t, "res_deliver")
    /\ \/ wkg_resolve_deliver(t)
       \/ wk_resolve_deliver(t)
       \/ qt_resolve_deliver(t)
    /\ Goto(t, "idle")
    /\ UNCHANGED <<flags, write_fd, pipe, mainq, request, device, connected>>

\* ------------------------------------------------------------------------
\* reject
\* ------------------------------------------------------------------------
\* executor::reject reads started: each backend has its own branch for a
\* started executor and falls back to the lambda installed at dispatch
reject(t, a) ==
    /\ Begin(t, "reject", a)
    /\ Enter(t, IF ~started THEN "rej_claim"
                ELSE IF backend = "wkg" THEN "rej_chk"
                ELSE IF backend = "wk" THEN "rej_sclaim"
                ELSE "rej_cw")
    /\ UNCHANGED <<flags, transport, connected, crashed, log>>

\* wkg: "if (m_impl->write_fd >= 0)"
wkg_reject_chk(t) ==
    /\ At(t, "rej_chk")
    /\ Goto(t, IF write_fd >= 0 THEN "rej_close" ELSE "rej_fin")
    /\ UNCHANGED <<flags, transport, connected, crashed, log>>

\* wkg: "close(m_impl->write_fd)"
wkg_reject_close(t) ==
    /\ At(t, "rej_close")
    /\ sys_close(t)
    /\ Step(t, "rej_store")
    /\ UNCHANGED <<flags, write_fd, tasks, mainq, request, device, connected, crashed,
                   m_buffer>>

\* wkg: "m_impl->write_fd = -1"
wkg_reject_store(t) ==
    /\ At(t, "rej_store")
    /\ write_fd' = NoFd
    /\ Goto(t, "rej_fin")
    /\ UNCHANGED <<flags, pipe, tasks, mainq, request, device, connected, crashed, log>>

\* wkg_reject_fin with the store to finished left out
wkg_reject_fin_skipped(t) ==
    /\ At(t, "rej_fin")
    /\ Goto(t, "idle")
    /\ UNCHANGED <<flags, transport, connected, crashed, log>>

\* wkg: "m_impl->finished = true; return"
wkg_reject_fin(t) ==
    /\ At(t, "rej_fin")
    /\ finished' = TRUE
    /\ Goto(t, "idle")
    /\ UNCHANGED <<started, transport, connected, crashed, log>>

\* wk: "m_impl->started && !m_impl->finished.exchange(true)"
wk_reject_sclaim(t) ==
    /\ At(t, "rej_sclaim")
    /\ finished' = TRUE
    /\ Goto(t, IF finished THEN "rej_claim" ELSE "rej_tab")
    /\ UNCHANGED <<started, transport, connected, crashed, log>>

\* wk: under the write lock, take the task out of the table
wk_reject_tab(t) ==
    /\ At(t, "rej_tab")
    /\ tasks' = tasks \ {Handle}
    /\ Goto(t, IF Handle \in tasks THEN "rej_disp" ELSE "idle")
    /\ UNCHANGED <<flags, write_fd, pipe, mainq, request, device, connected, crashed, log>>

\* wk: dispatch_async of the didFailWithError block
wk_reject_disp(t) ==
    /\ At(t, "rej_disp")
    /\ mainq' = Append(mainq, [k |-> "error", v |-> hist[cur[t]].arg, idx |-> cur[t]])
    /\ Goto(t, "idle")
    /\ UNCHANGED <<flags, write_fd, pipe, tasks, request, device, connected, crashed, log>>

\* qt: "if (m_impl->started && m_impl->device) device->close_write()"
qt_reject_cw(t) ==
    /\ At(t, "rej_cw")
    /\ close_write(t)
    /\ Goto(t, "rej_claim")
    /\ UNCHANGED <<flags, write_fd, pipe, tasks, mainq, request, connected>>

\* reject_claim with a load of finished in place of the exchange
reject_claim_load(t) ==
    /\ At(t, "rej_claim")
    /\ Goto(t, IF finished THEN "idle" ELSE "rej_deliver")
    /\ UNCHANGED <<flags, transport, connected, crashed, log>>

\* the lambda: "impl->finished.exchange(true)"
reject_claim(t) ==
    /\ At(t, "rej_claim")
    /\ finished' = TRUE
    /\ Goto(t, IF finished THEN "idle" ELSE "rej_deliver")
    /\ UNCHANGED <<started, transport, connected, crashed, log>>

\* wkg: webkit_uri_scheme_request_finish_error with the error's value
wkg_reject_deliver(t) ==
    /\ backend = "wkg"
    /\ Emit("error", hist[cur[t]].arg, cur[t], Alive)
    /\ UNCHANGED <<tasks, crashed>>

\* wk: under the write lock; didFailWithError on the task found in the table
wk_reject_deliver(t) ==
    /\ backend = "wk"
    /\ IF Handle \notin tasks
       THEN UNCHANGED <<log, tasks, crashed>>
       ELSE IF connected
       THEN /\ Emit("error", hist[cur[t]].arg, cur[t], Alive)
            /\ tasks' = tasks \ {Handle}
            /\ UNCHANGED crashed
       ELSE /\ crashed' = TRUE
            /\ UNCHANGED <<log, tasks>>

\* qt_error with the case of denied falling through to that of failed
qt_error_fallthrough(e) ==
    IF e = not_found THEN "UrlNotFound"
    ELSE IF e = invalid THEN "UrlInvalid"
    ELSE "RequestFailed"

\* QWebEngineUrlRequestJob::Error chosen by the switch
qt_error(e) ==
    IF e = not_found THEN "UrlNotFound"
    ELSE IF e = invalid THEN "UrlInvalid"
    ELSE IF e = denied THEN "RequestDenied"
    ELSE "RequestFailed"

\* qt: under the request lock; fail() on the job unless the pointer is null
qt_reject_deliver(t) ==
    /\ backend = "qt"
    /\ IF request = "job"
       THEN Emit("error", qt_error(hist[cur[t]].arg), cur[t], Alive)
       ELSE UNCHANGED log
    /\ UNCHANGED <<tasks, crashed>>

reject_deliver(t) ==
    /\ At(t, "rej_deliver")
    /\ \/ wkg_reject_deliver(t)
       \/ wk_reject_deliver(t)
       \/ qt_reject_deliver(t)
    /\ Goto(t, "idle")
    /\ UNCHANGED <<flags, write_fd, pipe, mainq, request, device, connected>>

\* ------------------------------------------------------------------------
\* start
\* ------------------------------------------------------------------------
\* start with a plain load of started in place of the exchange
start_load(t, a) ==
    /\ Begin(t, "start", a)
    /\ started' = started
    /\ Enter(t, IF started THEN "idle" ELSE "st_fin")
    /\ UNCHANGED <<finished, transport, connected, crashed, log>>

\* "m_impl->started.exchange(true) ||"
start(t, a) ==
    /\ Begin(t, "start", a)
    /\ started' = TRUE
    /\ Enter(t, IF started THEN "idle" ELSE "st_fin")
    /\ UNCHANGED <<finished, transport, connected, crashed, log>>

\* "|| m_impl->finished"
start_fin(t) ==
    /\ At(t, "st_fin")
    /\ Goto(t, IF finished THEN "idle" ELSE "st_acq")
    /\ UNCHANGED <<flags, transport, connected, crashed, log>>

\* wkg start that returns on a failed pipe() without resetting started
wkg_start_pipe_kept(t) ==
    /\ backend = "wkg"
    /\ At(t, "st_acq")
    /\ \/ /\ Goto(t, "idle")
          /\ UNCHANGED <<started, write_fd, pipe>>
       \/ /\ \E fd \in Fds : write_fd' = fd
          /\ pipe' = "open"
          /\ Goto(t, "st_hdr")
          /\ UNCHANGED started
    /\ UNCHANGED <<finished, tasks, mainq, request, device, connected, crashed, log>>

\* wkg: pipe(fds) fails and started is reset, or the write end is stored
wkg_start_pipe(t) ==
    /\ backend = "wkg"
    /\ At(t, "st_acq")
    /\ \/ /\ started' = FALSE
          /\ Goto(t, "idle")
          /\ UNCHANGED <<write_fd, pipe>>
       \/ /\ \E fd \in Fds : write_fd' = fd
          /\ pipe' = "open"
          /\ Goto(t, "st_hdr")
          /\ UNCHANGED started
    /\ UNCHANGED <<finished, tasks, mainq, request, device, connected, crashed, log>>

\* wkg: webkit_uri_scheme_request_finish_with_response with the pipe's stream
wkg_start_hdr(t) ==
    /\ At(t, "st_hdr")
    /\ Emit("header", wkg_head(hist[cur[t]].arg), cur[t], Alive)
    /\ Goto(t, "idle")
    /\ UNCHANGED <<flags, transport, connected, crashed>>

\* wk: under the write lock; a missing task resets started
wk_start_tab(t) ==
    /\ backend = "wk"
    /\ At(t, "st_acq")
    /\ started' = (Handle \in tasks)
    /\ Goto(t, IF Handle \in tasks THEN "st_disp" ELSE "idle")
    /\ UNCHANGED <<finished, transport, connected, crashed, log>>

\* wk: dispatch_async of the didReceiveResponse block
wk_start_disp(t) ==
    /\ At(t, "st_disp")
    /\ mainq' = Append(mainq, [k |-> "header", v |-> wk_head(hist[cur[t]].arg), idx |-> cur[t]])
    /\ Goto(t, "idle")
    /\ UNCHANGED <<flags, write_fd, pipe, tasks, request, device, connected, crashed, log>>

\* qt: under the request lock; a null job resets started, otherwise
\* setAdditionalResponseHeaders and reply(mime, device)
qt_start_reply(t) ==
    /\ backend = "qt"
    /\ At(t, "st_acq")
    /\ started' = (request = "job")
    /\ IF request = "job"
       THEN Emit("header", qt_head(hist[cur[t]].arg), cur[t], Alive)
       ELSE UNCHANGED log
    /\ Goto(t, "idle")
    /\ UNCHANGED <<finished, transport, connected, crashed>>

\* ------------------------------------------------------------------------
\* write
\* ------------------------------------------------------------------------
\* write with the test of started left out
write_unchecked(t, a) ==
    /\ Begin(t, "write", a)
    /\ Enter(t, "wr_fin")
    /\ UNCHANGED <<flags, transport, connected, crashed, log>>

\* "!m_impl->started ||"
write(t, a) ==
    /\ Begin(t, "write", a)
    /\ Enter(t, IF started THEN "wr_fin" ELSE "idle")
    /\ UNCHANGED <<flags, transport, connected, crashed, log>>

\* "|| m_impl->finished"
write_fin(t) ==
    /\ At(t, "wr_fin")
    /\ Goto(t, IF finished THEN "idle"
               ELSE IF backend = "wkg" THEN "wr_chk"
               ELSE IF backend = "wk" THEN "wr_tab"
               ELSE "wr_push")
    /\ UNCHANGED <<flags, transport, connected, crashed, log>>

\* wkg: "|| m_impl->write_fd < 0"
wkg_write_chk(t) ==
    /\ At(t, "wr_chk")
    /\ Goto(t, IF write_fd < 0 THEN "idle" ELSE "wr_sys")
    /\ UNCHANGED <<flags, transport, connected, crashed, log>>

\* wkg: the ::write loop
wkg_write_sys(t) ==
    /\ At(t, "wr_sys")
    /\ sys_write(t, hist[cur[t]].arg)
    /\ Step(t, "idle")
    /\ UNCHANGED <<flags, transport, connected, crashed, m_buffer>>

\* wk_write_tab with the task taken from the executor, not from the table
wk_write_tab_cached(t) ==
    /\ At(t, "wr_tab")
    /\ Goto(t, "wr_disp")
    /\ UNCHANGED <<flags, transport, connected, crashed, log>>

\* wk: under the read lock, look the task up
wk_write_tab(t) ==
    /\ At(t, "wr_tab")
    /\ Goto(t, IF Handle \in tasks THEN "wr_disp" ELSE "idle")
    /\ UNCHANGED <<flags, transport, connected, crashed, log>>

\* wk_write_disp with the block put at the front of the queue
wk_write_disp_front(t) ==
    /\ At(t, "wr_disp")
    /\ mainq' = <<[k |-> "chunk", v |-> hist[cur[t]].arg, idx |-> cur[t]]>> \o mainq
    /\ Goto(t, "idle")
    /\ UNCHANGED <<flags, write_fd, pipe, tasks, request, device, connected, crashed, log>>

\* wk: dispatch_async of the didReceiveData block
wk_write_disp(t) ==
    /\ At(t, "wr_disp")
    /\ mainq' = Append(mainq, [k |-> "chunk", v |-> hist[cur[t]].arg, idx |-> cur[t]])
    /\ Goto(t, "idle")
    /\ UNCHANGED <<flags, write_fd, pipe, tasks, request, device, connected, crashed, log>>

\* qt: "m_impl->device->push(data.data(), data.size())"
qt_write_push(t) ==
    /\ At(t, "wr_push")
    /\ push(t, hist[cur[t]].arg)
    /\ Step(t, "idle")
    /\ UNCHANGED <<flags, write_fd, pipe, tasks, mainq, request, connected, other>>

\* ------------------------------------------------------------------------
\* finish
\* ------------------------------------------------------------------------
\* "!m_impl->started ||"
finish(t) ==
    /\ Begin(t, "finish", 0)
    /\ Enter(t, IF started THEN "fi_claim" ELSE "idle")
    /\ UNCHANGED <<flags, transport, connected, crashed, log>>

\* "|| m_impl->finished.exchange(true)"
finish_claim(t) ==
    /\ At(t, "fi_claim")
    /\ finished' = TRUE
    /\ Goto(t, IF finished THEN "idle"
               ELSE IF backend = "wkg" THEN "fi_chk"
               ELSE IF backend = "wk" THEN "fi_tab"
               ELSE "fi_cw")
    /\ UNCHANGED <<started, transport, connected, crashed, log>>

\* wkg: "if (m_impl->write_fd >= 0)"
wkg_finish_chk(t) ==
    /\ At(t, "fi_chk")
    /\ Goto(t, IF write_fd >= 0 THEN "fi_close" ELSE "idle")
    /\ UNCHANGED <<flags, transport, connected, crashed, log>>

\* wkg: "close(m_impl->write_fd)"
wkg_finish_close(t) ==
    /\ At(t, "fi_close")
    /\ sys_close(t)
    /\ Step(t, "fi_store")
    /\ UNCHANGED <<flags, write_fd, tasks, mainq, request, device, connected, crashed,
                   m_buffer>>

\* wkg: "m_impl->write_fd = -1"
wkg_finish_store(t) ==
    /\ At(t, "fi_store")
    /\ write_fd' = NoFd
    /\ Goto(t, "idle")
    /\ UNCHANGED <<flags, pipe, tasks, mainq, request, device, connected, crashed, log>>

\* wk_finish_tab with the entry left in the table
wk_finish_tab_kept(t) ==
    /\ At(t, "fi_tab")
    /\ Goto(t, IF Handle \in tasks THEN "fi_disp" ELSE "idle")
    /\ UNCHANGED <<flags, transport, connected, crashed, log>>

\* wk: under the write lock, take the task out of the table
wk_finish_tab(t) ==
    /\ At(t, "fi_tab")
    /\ tasks' = tasks \ {Handle}
    /\ Goto(t, IF Handle \in tasks THEN "fi_disp" ELSE "idle")
    /\ UNCHANGED <<flags, write_fd, pipe, mainq, request, device, connected, crashed, log>>

\* wk: dispatch_async of the didFinish block
wk_finish_disp(t) ==
    /\ At(t, "fi_disp")
    /\ mainq' = Append(mainq, [k |-> "eos", v |-> 0, idx |-> cur[t]])
    /\ Goto(t, "idle")
    /\ UNCHANGED <<flags, write_fd, pipe, tasks, request, device, connected, crashed, log>>

\* qt: "if (m_impl->device) device->close_write()"
qt_finish_cw(t) ==
    /\ At(t, "fi_cw")
    /\ close_write(t)
    /\ Goto(t, "idle")
    /\ UNCHANGED <<flags, write_fd, pipe, tasks, mainq, request, connected>>

\* ------------------------------------------------------------------------
\* streaming() / valid(): the value a call would return now
\* ------------------------------------------------------------------------
\* the executor that tells Streaming from the flags alone
streaming_by_flags == started /\ ~finished

streaming ==
    IF backend = "wkg" THEN ~finished
    ELSE IF backend = "wk" THEN Handle \in tasks /\ ~finished
    ELSE request = "job" /\ ~finished

\* a streaming() that marks the executor finished once the request is gone
streaming_call_marking ==
    /\ ~crashed
    /\ invoked > 0
    /\ result' = [op |-> "streaming", v |-> streaming, native |-> FALSE]
    /\ finished' = (finished \/ ~streaming)
    /\ UNCHANGED <<backend, concurrent, detail, started, transport, connected, crashed,
                   m_callbacks, native, invoked, body, stream, other, pc, cur,
                   hist, log>>

\* a holder of the executor calls streaming(), at any time; wk reads the
\* table under its read lock, qt the job pointer under the request lock
streaming_call ==
    /\ ~crashed
    /\ invoked > 0
    /\ result' = [op |-> "streaming", v |-> streaming, native |-> FALSE]
    /\ UNCHANGED <<backend, concurrent, detail, flags, transport, connected, crashed,
                   m_callbacks, native, invoked, body, stream, other, pc, cur,
                   hist, log>>

\* ------------------------------------------------------------------------
\* The native side
\* ------------------------------------------------------------------------
\* wk: the main queue runs its oldest block; the task call inside raises
\* when the task was stopped, and the block discards the exception
main_queue_run ==
    /\ ~crashed
    /\ mainq # <<>>
    /\ LET b == Head(mainq) IN Emit(b.k, b.v, b.idx, Alive)
    /\ mainq' = Tail(mainq)
    /\ UNCHANGED <<backend, concurrent, detail, flags, write_fd, pipe, tasks, request,
                   device, connected, crashed, dispatch, m_buffer, other, pc, cur, hist>>

\* stopURLSchemeTask that leaves the stopped task in the table
stopURLSchemeTask_kept ==
    /\ ~crashed
    /\ backend = "wk"
    /\ connected
    /\ connected' = FALSE
    /\ UNCHANGED <<backend, concurrent, detail, flags, transport, crashed, dispatch,
                   m_buffer, other, pc, cur, hist, log>>

\* wk: stopURLSchemeTask, on the main thread, erases the stopped task
stopURLSchemeTask ==
    /\ ~crashed
    /\ backend = "wk"
    /\ connected
    /\ connected' = FALSE
    /\ tasks' = tasks \ {Handle}
    /\ UNCHANGED <<backend, concurrent, detail, flags, write_fd, pipe, mainq, request,
                   device, crashed, dispatch, m_buffer, other, pc, cur, hist, log>>

\* wkg: the consumer goes away and the read end of the pipe is closed; the
\* adapter installs no handler for it
wkg_disconnect ==
    /\ ~crashed
    /\ backend = "wkg"
    /\ connected
    /\ connected' = FALSE
    /\ UNCHANGED <<backend, concurrent, detail, flags, transport, crashed, dispatch, pc,
                   m_buffer, other, cur, hist, log>>

\* the destruction of the job without the handler that clears the pointer
qt_destroyed_kept ==
    /\ ~crashed
    /\ backend = "qt"
    /\ connected
    /\ connected' = FALSE
    /\ UNCHANGED <<backend, concurrent, detail, flags, transport, crashed, dispatch,
                   m_buffer, other, pc, cur, hist, log>>

\* qt: the job is destroyed; the handler connected to QObject::destroyed
\* assigns nullptr under the request lock
qt_destroyed ==
    /\ ~crashed
    /\ backend = "qt"
    /\ connected
    /\ connected' = FALSE
    /\ request' = "null"
    /\ UNCHANGED <<backend, concurrent, detail, flags, write_fd, pipe, tasks, mainq,
                   device, crashed, dispatch, m_buffer, other, pc, cur, hist, log>>

\* qt: the handler then calls device->close_write(), and the job's
\* destructor deletes the device, its child
qt_device_deleted ==
    /\ ~crashed
    /\ backend = "qt"
    /\ ~connected
    /\ device.alive
    /\ device' = [alive |-> FALSE, m_finished |-> TRUE]
    /\ UNCHANGED <<backend, concurrent, detail, flags, write_fd, pipe, tasks, mainq,
                   request, connected, crashed, dispatch, m_buffer, other, pc, cur, hist,
                   log>>

\* ------------------------------------------------------------------------
\* The registry of resolvers and the dispatch of a native request
\* ------------------------------------------------------------------------
\* the executor of the request and what was delivered for it
executor == <<flags, write_fd, pipe, mainq, crashed, pc, cur, hist, log>>

\* add_callback with insert_or_assign in place of emplace
add_callback_assign(w, r) ==
    /\ ~crashed
    /\ backend # "qt"
    /\ m_callbacks' = [v \in DOMAIN m_callbacks \cup {w} |->
                          IF v = w THEN r ELSE m_callbacks[v]]
    /\ UNCHANGED <<backend, concurrent, detail, executor, tasks, request, device,
                   connected, native, invoked, body, result, stream, other>>

\* handler::add_callback, SchemeHandler add_callback: emplace keeps the
\* resolver an instance already has
add_callback(w, r) ==
    /\ ~crashed
    /\ backend # "qt"
    /\ m_callbacks' = IF w \in DOMAIN m_callbacks THEN m_callbacks
                      ELSE [v \in DOMAIN m_callbacks \cup {w} |->
                               IF v = w THEN r ELSE m_callbacks[v]]
    /\ UNCHANGED <<backend, concurrent, detail, executor, tasks, request, device,
                   connected, native, invoked, body, result, stream, other>>

\* handler::del_callback, SchemeHandler del_callback
del_callback(w) ==
    /\ ~crashed
    /\ backend # "qt"
    /\ m_callbacks' = [v \in DOMAIN m_callbacks \ {w} |-> m_callbacks[v]]
    /\ UNCHANGED <<backend, concurrent, detail, executor, tasks, request, device,
                   connected, native, invoked, body, result, stream, other>>

\* the native request q of instance w is delivered; known: the instance has a
\* resolver and the request is dispatched to it
Deliver(w, q, known) ==
    /\ ~crashed
    /\ native = <<>>
    /\ native' = <<[view |-> w, known |-> known, req |-> q,
                     to |-> IF known THEN m_callbacks[w] ELSE "none"]>>
    /\ UNCHANGED <<backend, concurrent, detail, m_callbacks, write_fd, pipe, mainq, crashed,
                   pc, cur, hist, log, result, stream, other>>

\* a fresh executor::impl is handed to the resolver, which is called once
Invoke ==
    /\ started' = FALSE
    /\ finished' = FALSE
    /\ connected' = TRUE
    /\ invoked' = invoked + 1

\* the request is declined: the handler returns before it creates anything
Decline == UNCHANGED <<flags, connected, invoked, tasks, request, device, body>>

\* handle with the test of m_callbacks left out
handle_unchecked(w, q) ==
    /\ backend = "wkg"
    /\ Deliver(w, q, w \in DOMAIN m_callbacks)
    /\ Invoke
    /\ UNCHANGED <<tasks, request, device, body>>

\* wkg: handler::handle
handle(w, q) ==
    /\ backend = "wkg"
    /\ Deliver(w, q, w \in DOMAIN m_callbacks)
    /\ IF w \in DOMAIN m_callbacks
       THEN Invoke /\ UNCHANGED <<tasks, request, device, body>>
       ELSE Decline

\* wk: startURLSchemeTask; the task is entered in m_tasks under its hash
startURLSchemeTask(w, q) ==
    /\ backend = "wk"
    /\ Deliver(w, q, w \in DOMAIN m_callbacks)
    /\ IF w \in DOMAIN m_callbacks
       THEN /\ tasks' = tasks \cup {Handle}
            /\ Invoke
            /\ UNCHANGED <<request, device, body>>
       ELSE Decline

\* QIODevice::readAll into a QByteArray, whose elements are of type char
readAll(bytes) ==
    [i \in DOMAIN bytes |-> IF bytes[i] >= 128 THEN bytes[i] - 256 ELSE bytes[i]]

\* qt: handler::requestStarted; the body is read if there is one and it
\* opens, and the stream device is created as child of the job
requestStarted(w, q) ==
    /\ backend = "qt"
    /\ Deliver(w, q, w \in DOMAIN m_callbacks)
    /\ IF w \in DOMAIN m_callbacks
       THEN /\ request' = "job"
            /\ body' = IF q.body.present /\ q.body.opens
                       THEN readAll(q.body.bytes) ELSE <<>>
            /\ device' = [alive |-> TRUE, m_finished |-> FALSE]
            /\ Invoke
            /\ UNCHANGED tasks
       ELSE Decline

\* ------------------------------------------------------------------------
\* A second request, in flight at the same time
\* ------------------------------------------------------------------------
\* handle / startURLSchemeTask / requestStarted for a second native request:
\* it gets an executor::impl of its own.  wk: it is entered in m_tasks under
\* its task.hash, which differs from the hash of the first task because that
\* task is kept alive by the task_ref in its executor::impl
other_dispatch(k) ==
    /\ ~crashed
    /\ invoked > 0
    /\ ~other.live
    /\ k # Handle
    /\ other' = [NoOther EXCEPT !.live = TRUE, !.key = k]
    /\ tasks' = IF backend = "wk" THEN tasks \cup {k} ELSE tasks
    /\ UNCHANGED <<backend, concurrent, detail, flags, write_fd, pipe, mainq, request,
                   device, connected, crashed, dispatch, m_buffer, pc, cur, hist,
                   log>>

\* start on the second request's executor.  wkg: pipe() returns descriptors
\* that are not open; the number the first request uses is free again once
\* that request has closed it.  wk: the task is looked up under its own key
other_start ==
    /\ ~crashed
    /\ other.live
    /\ ~other.started
    /\ ~other.finished
    /\ IF backend = "wkg"
       THEN \E fd \in OtherFds :
               /\ fd \in Fds => pipe = "closed"
               /\ other' = [other EXCEPT !.started = TRUE, !.fd = fd, !.open = TRUE]
       ELSE IF backend = "wk"
       THEN other' = [other EXCEPT !.started = other.key \in tasks,
                                   !.open = other.key \in tasks]
       ELSE other' = [other EXCEPT !.started = TRUE, !.open = TRUE]
    /\ UNCHANGED <<backend, concurrent, detail, flags, transport, connected, crashed,
                   dispatch, m_buffer, pc, cur, hist, log>>

\* finish on the second request's executor
other_finish ==
    /\ ~crashed
    /\ other.live
    /\ other.started
    /\ ~other.finished
    /\ other' = [other EXCEPT !.finished = TRUE, !.fd = NoFd, !.open = FALSE]
    /\ tasks' = tasks \ {other.key}
    /\ UNCHANGED <<backend, concurrent, detail, flags, write_fd, pipe, mainq, request,
                   device, connected, crashed, dispatch, m_buffer, pc, cur, hist,
                   log>>

\* ------------------------------------------------------------------------
\* The Request handed to the resolver (qt)
\* ------------------------------------------------------------------------
\* an accessor of the Request returns; native: it called into the job
Return(o, v, n) ==
    /\ result' = [op |-> o, v |-> v, native |-> n]
    /\ UNCHANGED crashed

\* request.value()->... on the locked job pointer: a call through the null
\* pointer left by the destroyed handler is undefined behaviour, the process
\* dies or the call returns whatever it finds
OnJob(o, v) ==
    IF request = "job" THEN Return(o, v, TRUE)
    ELSE \/ crashed' = TRUE /\ UNCHANGED result
         \/ Return(o, "garbage", TRUE)

\* an accessor is called on the Request by its holder
Accessor ==
    /\ ~crashed
    /\ backend = "qt"
    /\ invoked > 0
    /\ UNCHANGED <<backend, concurrent, detail, flags, transport, connected, m_callbacks,
                   native, invoked, body, stream, other, pc, cur, hist, log>>

\* request::url
request_url ==
    /\ Accessor
    /\ OnJob("url", native[1].req.url)

\* request::method
request_method ==
    /\ Accessor
    /\ OnJob("method", native[1].req.method)

\* bytes_of with the chars handed out as they are stored
bytes_of_char(b) == b

\* the view of the captured body, its chars read as std::uint8_t
bytes_of(b) == [i \in DOMAIN b |-> b[i] % 256]

\* request::content
request_content ==
    /\ Accessor
    /\ Return("content", bytes_of(body), FALSE)

\* the std::map built from the range `headers | transform`: the iterators of
\* a QMap run over its values, so that item is a value; headers[item] on the
\* const map is the value stored under that key, or an empty QByteArray
transformed(h) ==
    LET values == {h[n] : n \in DOMAIN h}
    IN [item \in values |-> IF item \in DOMAIN h THEN h[item] ELSE ""]

\* request::headers
request_headers ==
    /\ Accessor
    /\ OnJob("headers", transformed(native[1].req.headers))

\* ------------------------------------------------------------------------
\* The specification
\* ------------------------------------------------------------------------
Next ==
    \/ \E t \in Threads, a \in ResolveWith : resolve(t, a)
    \/ \E t \in Threads : resolve_claim(t)
    \/ \E t \in Threads : resolve_deliver(t)
    \/ \E t \in Threads, a \in RejectWith : reject(t, a)
    \/ \E t \in Threads : wkg_reject_chk(t)
    \/ \E t \in Threads : wkg_reject_close(t)
    \/ \E t \in Threads : wkg_reject_store(t)
    \/ \E t \in Threads : wkg_reject_fin(t)
    \/ \E t \in Threads : wk_reject_sclaim(t)
    \/ \E t \in Threads : wk_reject_tab(t)
    \/ \E t \in Threads : wk_reject_disp(t)
    \/ \E t \in Threads : qt_reject_cw(t)
    \/ \E t \in Threads : reject_claim(t)
    \/ \E t \in Threads : reject_deliver(t)
    \/ \E t \in Threads, a \in StartWith : start(t, a)
    \/ \E t \in Threads : start_fin(t)
    \/ \E t \in Threads : wkg_start_pipe(t)
    \/ \E t \in Threads : wkg_start_hdr(t)
    \/ \E t \in Threads : wk_start_tab(t)
    \/ \E t \in Threads : wk_start_disp(t)
    \/ \E t \in Threads : qt_start_reply(t)
    \/ \E t \in Threads : write(t, Len(hist) + 1)
    \/ \E t \in Threads : write_fin(t)
    \/ \E t \in Threads : wkg_write_chk(t)
    \/ \E t \in Threads : wkg_write_sys(t)
    \/ \E t \in Threads : wk_write_tab(t)
    \/ \E t \in Threads : wk_write_disp(t)
    \/ \E t \in Threads : qt_write_push(t)
    \/ \E t \in Threads : finish(t)
    \/ \E t \in Threads : finish_claim(t)
    \/ \E t \in Threads : wkg_finish_chk(t)
    \/ \E t \in Threads : wkg_finish_close(t)
    \/ \E t \in Threads : wkg_finish_store(t)
    \/ \E t \in Threads : wk_finish_tab(t)
    \/ \E t \in Threads : wk_finish_disp(t)
    \/ \E t \in Threads : qt_finish_cw(t)
    \/ main_queue_run
    \/ stopURLSchemeTask
    \/ wkg_disconnect
    \/ qt_destroyed
    \/ qt_device_deleted

Spec == Init /\ [][Next]_vars

\* before any native request: nothing is registered (qt: every instance has
\* its handler, built with a resolver or with an empty one) and no executor
\* exists
DispatchInit ==
    /\ backend \in Backends
    /\ concurrent = FALSE
    /\ DetailInit
    /\ m_callbacks \in {[w \in S |-> "r1"] :
                          S \in IF backend = "qt" THEN SUBSET Instances ELSE {{}}}
    /\ native = <<>>
    /\ invoked = 0
    /\ body = <<>>
    /\ result = NoResult
    /\ m_buffer = <<>>
    /\ reads = <<>>
    /\ other = NoOther
    /\ started = FALSE
    /\ finished = FALSE
    /\ write_fd = NoFd
    /\ pipe = "none"
    /\ tasks = {}
    /\ mainq = <<>>
    /\ request = "none"
    /\ device = [alive |-> FALSE, m_finished |-> FALSE]
    /\ connected = FALSE
    /\ crashed = FALSE
    /\ pc = [t \in Threads |-> "idle"]
    /\ cur = [t \in Threads |-> 0]
    /\ hist = <<>>
    /\ log = <<>>

DispatchNext ==
    \/ \E w \in Instances, r \in Resolvers : add_callback(w, r)
    \/ \E w \in Instances : del_callback(w)
    \/ \E w \in Instances, q \in Requests : handle(w, q)
    \/ \E w \in Instances, q \in Requests : startURLSchemeTask(w, q)
    \/ \E w \in Instances, q \in Requests : requestStarted(w, q)
    \/ request_url
    \/ request_method
    \/ request_content
    \/ request_headers
    \/ qt_destroyed

DispatchSpec == DispatchInit /\ [][DispatchNext]_vars

\* one producer that starts or does not, and rejects with any of the four
\* error kinds
ErrorInit == Init /\ ~concurrent

ErrorNext ==
    \/ \E t \in Threads, a \in Errors : reject(t, a)
    \/ \E t \in Threads : wkg_reject_chk(t)
    \/ \E t \in Threads : wkg_reject_close(t)
    \/ \E t \in Threads : wkg_reject_store(t)
    \/ \E t \in Threads : wkg_reject_fin(t)
    \/ \E t \in Threads : wk_reject_sclaim(t)
    \/ \E t \in Threads : wk_reject_tab(t)
    \/ \E t \in Threads : wk_reject_disp(t)
    \/ \E t \in Threads : qt_reject_cw(t)
    \/ \E t \in Threads : reject_claim(t)
    \/ \E t \in Threads : reject_deliver(t)
    \/ \E t \in Threads, a \in StartWith : start(t, a)
    \/ \E t \in Threads : start_fin(t)
    \/ \E t \in Threads : wkg_start_pipe(t)
    \/ \E t \in Threads : wkg_start_hdr(t)
    \/ \E t \in Threads : wk_start_tab(t)
    \/ \E t \in Threads : wk_start_disp(t)
    \/ \E t \in Threads : qt_start_reply(t)
    \/ main_queue_run

ErrorSpec == ErrorInit /\ [][ErrorNext]_vars

\* one producer whose calls are interleaved with calls of streaming()
QueryInit == Init /\ ~concurrent

QueryNext ==
    \/ Next
    \/ streaming_call

QuerySpec == QueryInit /\ [][QueryNext]_vars

\* the Qt stream device between one producer, which starts, writes and
\* finishes, and the engine, which reads
DeviceInit == Init /\ backend = "qt" /\ ~concurrent

DeviceNext ==
    \/ \E t \in Threads, a \in StartWith : start(t, a)
    \/ \E t \in Threads : start_fin(t)
    \/ \E t \in Threads : qt_start_reply(t)
    \/ \E t \in Threads : write(t, Len(hist) + 1)
    \/ \E t \in Threads : write_fin(t)
    \/ \E t \in Threads : qt_write_push(t)
    \/ \E t \in Threads : finish(t)
    \/ \E t \in Threads : finish_claim(t)
    \/ \E t \in Threads : qt_finish_cw(t)
    \/ \E max \in ReadSizes : readData(max)

DeviceSpec == DeviceInit /\ [][DeviceNext]_vars

\* a streaming request served by two threads while a second request is
\* dispatched, started and finished
PairInit == Init /\ concurrent

PairNext ==
    \/ \E t \in Threads, a \in StartWith : start(t, a)
    \/ \E t \in Threads : start_fin(t)
    \/ \E t \in Threads : wkg_start_pipe(t)
    \/ \E t \in Threads : wkg_start_hdr(t)
    \/ \E t \in Threads : wk_start_tab(t)
    \/ \E t \in Threads : wk_start_disp(t)
    \/ \E t \in Threads : qt_start_reply(t)
    \/ \E t \in Threads : write(t, Len(hist) + 1)
    \/ \E t \in Threads : write_fin(t)
    \/ \E t \in Threads : wkg_write_chk(t)
    \/ \E t \in Threads : wkg_write_sys(t)
    \/ \E t \in Threads : wk_write_tab(t)
    \/ \E t \in Threads : wk_write_disp(t)
    \/ \E t \in Threads : qt_write_push(t)
    \/ \E t \in Threads : finish(t)
    \/ \E t \in Threads : finish_claim(t)
    \/ \E t \in Threads : wkg_finish_chk(t)
    \/ \E t \in Threads : wkg_finish_close(t)
    \/ \E t \in Threads : wkg_finish_store(t)
    \/ \E t \in Threads : wk_finish_tab(t)
    \/ \E t \in Threads : wk_finish_disp(t)
    \/ \E t \in Threads : qt_finish_cw(t)
    \/ main_queue_run
    \/ \E k \in Hashes : other_dispatch(k)
    \/ other_start
    \/ other_finish

PairSpec == PairInit /\ [][PairNext]_vars

\* ------------------------------------------------------------------------
\* Vocabulary of the properties
\* ------------------------------------------------------------------------
Calls == DOMAIN hist

\* call i has returned
Completed(i) == i \in Calls /\ \A t \in Threads : cur[t] # i

\* no call is in flight and the main queue is drained
Quiescent == (\A t \in Threads : pc[t] = "idle") /\ mainq = <<>>

\* the native calls call i has executed, and the blocks it has queued
EventsOf(i) == {n \in DOMAIN log : log[n].idx = i}
BlocksOf(i) == {n \in DOMAIN mainq : mainq[n].idx = i}
Native(i) == EventsOf(i) # {} \/ BlocksOf(i) # {}

\* the native calls of the given kinds executed so far
Kind(ks) == {n \in DOMAIN log : log[n].k \in ks}

\* two native calls are the same: same kind, same call, same outcome and,
\* the kind being the same, the same value
Same(a, b) == a.k = b.k /\ a.idx = b.idx /\ a.r = b.r /\ a.v = b.v

\* two sequences of native calls are the same
SameCalls(s1, s2) ==
    Len(s1) = Len(s2) /\ \A n \in DOMAIN s1 : Same(s1[n], s2[n])

\* the error a backend hands to the native layer for error kind e
NativeError(e) == IF backend = "qt" THEN qt_error(e) ELSE e

\* ------------------------------------------------------------------------
\* C1
\* ------------------------------------------------------------------------
\* C1: whatever calls are made on the executor, from one thread or from two
\* at once, the native layer receives at most one completion in total: the
\* full-response deliveries and the error deliveries together number at most 1.
C1_AtMostOneCompletion ==
    Cardinality(Kind({"response", "error"})) <= 1

\* a resolve and a reject raced on the Idle executor and one was delivered
C1_Witness ==
    /\ concurrent
    /\ Quiescent
    /\ \E i, j \in Calls :
          /\ hist[i].op = "resolve" /\ hist[i].st = "Idle"
          /\ hist[j].op = "reject" /\ hist[j].st = "Idle"
    /\ Cardinality(Kind({"response", "error"})) = 1

\* ------------------------------------------------------------------------
\* C2
\* ------------------------------------------------------------------------
\* C2: when a start and a resolve or reject both begin on the Idle executor,
\* at most one of the two performs a native call, so that the request does not
\* receive a header commit together with a response or an error.
C2_OnlyOneWins ==
    \A i, j \in Calls :
        /\ hist[i].op = "start" /\ hist[i].st = "Idle"
        /\ hist[j].op \in {"resolve", "reject"} /\ hist[j].st = "Idle"
        => ~(Native(i) /\ Native(j))

\* ------------------------------------------------------------------------
\* C3
\* ------------------------------------------------------------------------
\* C3: a call that begins when the executor is already Resolved, Rejected or
\* Finished executes no native call and queues none, the stream transport
\* included.
C3_TerminalIsSilent ==
    \A i \in Calls : hist[i].st \in {"Terminal", "Finished"} => ~Native(i)

\* ------------------------------------------------------------------------
\* C4
\* ------------------------------------------------------------------------
\* the calls made are start, then N >= 0 writes, then finish, by one producer
StartWritesFinish ==
    /\ ~concurrent
    /\ Len(hist) >= 2
    /\ hist[1].op = "start"
    /\ hist[Len(hist)].op = "finish"
    /\ \A i \in 2 .. Len(hist) - 1 : hist[i].op = "write"

\* the header commit of the backend for stream_response s
head(s) ==
    IF backend = "wkg" THEN wkg_head(s)
    ELSE IF backend = "wk" THEN wk_head(s)
    ELSE qt_head(s)

\* what the native layer is to observe for the calls made: the header, the
\* chunks in the order written, the end of stream
Expected ==
    [i \in Calls |->
        IF hist[i].op = "start" THEN Event("header", head(hist[i].arg), i, "ok")
        ELSE IF hist[i].op = "write" THEN Event("chunk", hist[i].arg, i, "ok")
        ELSE Event("eos", 0, i, "ok")]

C5_CancelEndsStreaming ==
    /\ \A i \in Calls :
          hist[i].op = "write" /\ ~hist[i].conn
          => \A n \in EventsOf(i) : log[n].r # "ok"
    /\ started /\ ~connected /\ Quiescent => ~streaming

\* ------------------------------------------------------------------------
\* C6
\* ------------------------------------------------------------------------
\* a reject made by the one producer on the Streaming executor of a request
\* that is still connected has returned, and the main queue is drained
RejectedAfterStart(j) ==
    /\ ~concurrent
    /\ connected
    /\ Quiescent
    /\ j \in Calls
    /\ hist[j].op = "reject"
    /\ hist[j].st = "Streaming"

\* the write and finish calls made after call j executed no native call
LaterStreamCallsSilent(j) ==
    \A i \in Calls :
        i > j /\ hist[i].op \in {"write", "finish"} => ~Native(i)

\* C6 as stated: a reject after start delivers no native error; the stream is
\* closed once and the executor is terminal, so that later write and finish
\* calls do nothing.
C6_RejectAfterStartClosesOnly ==
    \A j \in Calls :
        RejectedAfterStart(j)
        => /\ \A n \in EventsOf(j) : log[n].k # "error"
           /\ Cardinality({n \in EventsOf(j) : log[n].k = "eos"}) = 1
           /\ finished
           /\ LaterStreamCallsSilent(j)

\* how each backend ends the stream in a reject with error kind e made by
\* call j after start
StreamEnding(j, e) ==
    IF backend = "wkg" THEN <<Event("eos", 0, j, "ok")>>
    ELSE IF backend = "wk" THEN <<Event("error", e, j, "ok")>>
    ELSE <<Event("eos", 0, j, "ok"), Event("error", qt_error(e), j, "ok")>>

\* C6 (amended): a reject after start makes the executor terminal, so that
\* later write and finish calls do nothing, and ends the stream once, in a way
\* that depends on the backend: WebKitGTK closes the pipe and delivers no
\* error, WKWebView fails the task with the error code and sends no end of
\* stream, Qt closes the stream device and then fails the job.
C6_RejectAfterStartEndsStream ==
    \A j \in Calls :
        RejectedAfterStart(j)
        => /\ SameCalls([n \in 1 .. Cardinality(EventsOf(j)) |->
                           log[CHOOSE m \in EventsOf(j) :
                                 Cardinality({x \in EventsOf(j) : x < m}) = n - 1]],
                        StreamEnding(j, hist[j].arg))
           /\ finished
           /\ LaterStreamCallsSilent(j)

\* a reject after start has ended the stream and a later write and a later
\* finish were made
C6_Witness ==
    \E j \in Calls :
        /\ RejectedAfterStart(j)
        /\ \E i \in Calls : i > j /\ hist[i].op = "write"
        /\ \E i \in Calls : i > j /\ hist[i].op = "finish"
        /\ Cardinality(EventsOf(j)) >= 1

\* ------------------------------------------------------------------------
\* C7
\* ------------------------------------------------------------------------
\* a reject made by the one producer on the Idle executor of a request that
\* is still connected has returned
RejectedIdle(j) ==
    /\ ~concurrent
    /\ connected
    /\ Completed(j)
    /\ hist[j].op = "reject"
    /\ hist[j].st = "Idle"

\* C7: a reject with error kind e on the Idle executor of a connected request
\* delivers exactly one native error, the backend's error for e, and the
\* request never gets a header, a chunk or a response, neither before nor
\* after, whatever is called later.
C7_RejectIdleDeliversError ==
    \A j \in Calls :
        RejectedIdle(j)
        => /\ \E n \in DOMAIN log :
                 /\ Same(log[n], Event("error", NativeError(hist[j].arg), j, "ok"))
                 /\ Kind({"error"}) = {n}
           /\ Kind({"header", "chunk", "response"}) = {}
           /\ \A n \in DOMAIN mainq : mainq[n].k \notin {"header", "chunk", "response"}

\* reject(not_found) was delivered and resolve, start and write were tried after it
C7_Witness ==
    \E j \in Calls :
        /\ RejectedIdle(j)
        /\ hist[j].arg = not_found
        /\ Quiescent
        /\ Len(hist) = j + 3
        /\ hist[j + 1].op = "start"
        /\ hist[j + 2].op = "write"
        /\ hist[j + 3].op = "resolve"

\* ------------------------------------------------------------------------
\* C8
\* ------------------------------------------------------------------------
\* this step belongs to a write call that began when the executor was not
\* Streaming (Idle, or after resolve, reject or finish)
WriteStepOutsideStreaming ==
    \/ /\ hist' # hist
       /\ hist'[Len(hist')].op = "write"
       /\ hist'[Len(hist')].st # "Streaming"
    \/ \E t \in Threads :
          /\ cur[t] # 0
          /\ pc'[t] # pc[t]
          /\ hist[cur[t]].op = "write"
          /\ hist[cur[t]].st # "Streaming"

\* C8: a write that begins when the executor is not Streaming hands no chunk
\* to the native layer and changes neither flag nor the transport, in every
\* step it takes.
C8_WriteOnlyWhileStreaming ==
    [][WriteStepOutsideStreaming => UNCHANGED <<flags, transport, log>>]_vars

\* writes were made on the Idle executor and, after start and finish, on the
\* Finished one, and returned
C8_Witness ==
    /\ Quiescent
    /\ \E i \in Calls : hist[i].op = "write" /\ hist[i].st = "Idle"
    /\ \E i \in Calls : hist[i].op = "write" /\ hist[i].st = "Finished"
    /\ Kind({"header", "eos"}) # {}
    /\ Kind({"chunk"}) = {}

\* ------------------------------------------------------------------------
\* C9
\* ------------------------------------------------------------------------
\* the transitions of the five-state machine
Legal ==
    {<<"Idle", "Terminal">>, <<"Idle", "Streaming">>, <<"Streaming", "Finished">>}

\* a start that could not obtain its transport restores started within the
\* call; the call as a whole leaves the state unchanged
StartRollsBack ==
    /\ State(started, finished) = "Streaming"
    /\ State(started', finished') = "Idle"
    /\ \E t \in Threads : pc[t] = "st_acq" /\ pc'[t] = "idle"

\* C9: read as states, the two flags only make the transitions of the
\* five-state machine; in particular no flag of an executor that is Resolved,
\* Rejected or Finished changes.
C9_FlagsRefineStates ==
    [][\/ State(started', finished') = State(started, finished)
       \/ <<State(started, finished), State(started', finished')>> \in Legal
       \/ StartRollsBack]_vars

\* ------------------------------------------------------------------------
\* C10
\* ------------------------------------------------------------------------
\* C10 as stated: in the WKWebView backend no task call is executed on a task
\* that stopURLSchemeTask has removed from the table.
C10_NoCallOnStoppedTask ==
    backend = "wk" => \A n \in DOMAIN log : log[n].r = "ok"

\* C10 (amended): in the WKWebView backend an operation that begins after
\* stopURLSchemeTask has removed the task executes no task call and queues
\* none; only blocks of operations that began before the removal run on the
\* stopped task.
C10_NoCallBegunAfterStop ==
    backend = "wk" => \A i \in Calls : ~hist[i].conn => ~Native(i)

\* a write on the Streaming executor began after the stop and returned, and a
\* block queued before the stop has run on the stopped task
C10_Witness ==
    /\ backend = "wk"
    /\ \E i \in Calls :
          /\ Completed(i)
          /\ ~hist[i].conn
          /\ hist[i].op = "write"
          /\ hist[i].st = "Streaming"
    /\ \E n \in DOMAIN log : log[n].r = "gone"

\* ------------------------------------------------------------------------
\* C11
\* ------------------------------------------------------------------------
\* C11: in the Qt backend no call on the executor uses the request job or the
\* stream device after the job has been destroyed: the process does not die of
\* such a use and no native call goes through on the freed device.
C11_NoUseAfterDestroy ==
    backend = "qt" => ~crashed /\ \A n \in DOMAIN log : log[n].r # "uaf"

\* ------------------------------------------------------------------------
\* C12
\* ------------------------------------------------------------------------
\* C12: in the WebKitGTK backend, however write, finish and reject of
\* different threads interleave on the Streaming executor, no close and no
\* ::write is issued on the write descriptor of the pipe after it was closed.
C12_NoUseAfterClose ==
    backend = "wkg" => \A n \in DOMAIN log : log[n].r # "badfd"

\* ------------------------------------------------------------------------
\* C13
\* ------------------------------------------------------------------------
\* this step executes a native call
NativeCallStep == Len(log') > Len(log)

\* this step is taken by an application thread inside one of its calls; the
\* only steps that execute native calls on the toolkit's thread are those of
\* the main queue
CallerThreadStep == pc' # pc \/ hist' # hist

\* C13: every native call (full response, error, header commit, chunk, end of
\* stream) is executed by the toolkit's thread, never by a step of the
\* application thread that called resolve, reject, start, write or finish.
C13_NativeCallsOnOwningThread ==
    [][NativeCallStep => ~CallerThreadStep]_vars

\* ------------------------------------------------------------------------
\* C14
\* ------------------------------------------------------------------------
\* C14: url(), method(), content() and headers() of the Request read what was
\* captured at dispatch: no call of them goes into the native request job,
\* none brings the process down after the job was destroyed, and url() and
\* method() return the values the request had at dispatch.
C14_RequestIsSnapshot ==
    /\ ~crashed
    /\ ~result.native
    /\ result.op = "url" => result.v = native[1].req.url
    /\ result.op = "method" => result.v = native[1].req.method

\* ------------------------------------------------------------------------
\* C15
\* ------------------------------------------------------------------------
\* C15: headers() called while the native request is alive returns the map of
\* the request's headers: every name with its value and no other key.
C15_HeadersRoundTrip ==
    result.op = "headers" /\ connected => result.v = native[1].req.headers

\* ------------------------------------------------------------------------
\* C16
\* ------------------------------------------------------------------------
\* the body a native request q supplies: its bytes if it has a body that can
\* be opened, no byte otherwise
Supplied(q) == IF q.body.present /\ q.body.opens THEN q.body.bytes ELSE <<>>

\* C16: content() returns the bytes of the request body as they were
\* supplied, and the empty buffer for an empty body, for a request without
\* body and for a body that cannot be opened, also after the native request
\* was destroyed.
C16_ContentRoundTrip ==
    result.op = "content" => result.v = Supplied(native[1].req)

\* content() returned a body of MaxBody bytes with a byte above 127 and a
\* zero byte, after the native request was destroyed
C16_Witness ==
    /\ result.op = "content"
    /\ request = "null"
    /\ Len(result.v) = MaxBody
    /\ \E i, j \in DOMAIN result.v : result.v[i] = 200 /\ result.v[j] = 0

\* ------------------------------------------------------------------------
\* C17
\* ------------------------------------------------------------------------
\* the MIME type a native delivery v carries: given as such, or as the
\* Content-Type among its header fields
MimeOf(v) == IF "mime" \in DOMAIN v THEN v.mime ELSE v.headers["Content-Type"]

\* the native delivery v carries the status, the MIME type and every header
\* of x, a response or a stream_response
Carries(v, x) ==
    /\ "status" \in DOMAIN v
    /\ v.status = x.status
    /\ MimeOf(v) = x.mime
    /\ \A h \in DOMAIN x.headers :
          h \in DOMAIN v.headers /\ v.headers[h] = x.headers[h]

\* call j, made by the one producer with operation o on the Idle executor of
\* a request that is still connected, has returned and the main queue is
\* drained
DoneOnIdle(j, o) ==
    /\ ~concurrent
    /\ connected
    /\ Quiescent
    /\ j \in Calls
    /\ hist[j].op = o
    /\ hist[j].st = "Idle"

\* C17: resolve(r) on the Idle executor of a connected request makes exactly
\* one native response delivery, which carries the status, the MIME type, the
\* headers and the body bytes of r (status 204 and no byte for the response
\* without content), in each backend.
C17_ResolveDeliversResponse ==
    \A j \in Calls :
        DoneOnIdle(j, "resolve")
        => \E n \in DOMAIN log :
              /\ Kind({"response"}) = {n}
              /\ log[n].idx = j
              /\ log[n].r = "ok"
              /\ Carries(log[n].v, hist[j].arg)
              /\ log[n].v.data = hist[j].arg.data

\* ------------------------------------------------------------------------
\* C18
\* ------------------------------------------------------------------------
\* C18: start(s) on the Idle executor of a connected request makes exactly one
\* header delivery, which carries the status, the MIME type and every header
\* of s, in each backend (in the WebKitGTK backend, when pipe() succeeded).
C18_StartCommitsHead ==
    \A j \in Calls :
        /\ DoneOnIdle(j, "start")
        /\ backend = "wkg" => pipe # "none"
        => \E n \in DOMAIN log :
              /\ Kind({"header"}) = {n}
              /\ log[n].idx = j
              /\ log[n].r = "ok"
              /\ Carries(log[n].v, hist[j].arg)

\* ------------------------------------------------------------------------
\* C19
\* ------------------------------------------------------------------------
\* the code each error kind is to be delivered with: the number, or for Qt
\* the native error
FixedCode(e) ==
    IF backend = "qt"
    THEN (IF e = not_found THEN "UrlNotFound"
          ELSE IF e = invalid THEN "UrlInvalid"
          ELSE IF e = denied THEN "RequestDenied"
          ELSE "RequestFailed")
    ELSE (IF e = not_found THEN 404
          ELSE IF e = invalid THEN 400
          ELSE IF e = denied THEN 401
          ELSE -1)

\* C19: every error delivered to the native layer, before or after start,
\* carries the fixed code of the kind that reject was called with: 404, 400,
\* 401 and -1 in the WebKitGTK and WKWebView backends, and in the Qt backend
\* UrlNotFound, UrlInvalid, RequestDenied and RequestFailed, four different
\* native errors.
C19_FixedErrorCodes ==
    /\ \A n \in Kind({"error"}) : log[n].v = FixedCode(hist[log[n].idx].arg)
    /\ \A n \in DOMAIN mainq :
          mainq[n].k = "error" => mainq[n].v = FixedCode(hist[mainq[n].idx].arg)
    /\ Cardinality({qt_error(e) : e \in Errors}) = Cardinality(Errors)

\* reject(denied) was delivered to a connected request
C19_Witness ==
    \E n \in Kind({"error"}) :
        /\ hist[log[n].idx].arg = denied
        /\ log[n].r = "ok"
        /\ hist[log[n].idx].st = "Idle"

\* ------------------------------------------------------------------------
\* C20
\* ------------------------------------------------------------------------
\* nothing was created for the request and nothing was delivered
NothingCreated ==
    /\ invoked = 0
    /\ tasks = {}
    /\ request = "none"
    /\ ~device.alive
    /\ hist = <<>>
    /\ log = <<>>
    /\ mainq = <<>>

\* C20: a native request of an instance without resolver is declined: no
\* resolver is invoked, no executor and no table entry is created, no native
\* call is made; a native request of an instance with a resolver has invoked
\* a resolver exactly once, with an executor that is Idle (and, for
\* WKWebView, with its task entered in the table).
C20_DispatchOrDecline ==
    /\ native = <<>> => NothingCreated
    /\ native # <<>> /\ ~native[1].known => NothingCreated
    /\ native # <<>> /\ native[1].known
       => /\ invoked = 1
          /\ hist = <<>> => State(started, finished) = "Idle"
          /\ backend = "wk" => tasks = {Handle}

\* a request of an instance without resolver was declined while the other
\* instance had one
C20_Witness ==
    /\ native # <<>>
    /\ ~native[1].known
    /\ DOMAIN m_callbacks # {}
    /\ NothingCreated

\* ------------------------------------------------------------------------
\* C22
\* ------------------------------------------------------------------------
\* the header commits made so far: those executed by the native layer and
\* those still queued for the main thread
Headers ==
    Cardinality(Kind({"header"}))
        + Cardinality({n \in DOMAIN mainq : mainq[n].k = "header"})

\* C22: however many start calls are made on the executor, one after the
\* other or from two threads at once, at most one of them commits headers;
\* the others make no native call at all.
C22_OneStartCommits ==
    /\ Headers <= 1
    /\ \A i, j \in Calls :
          hist[i].op = "start" /\ hist[j].op = "start" /\ i # j
          => ~(Native(i) /\ Native(j))

\* two starts raced on the Idle executor and one header was committed
C22_Witness ==
    /\ concurrent
    /\ Quiescent
    /\ Headers = 1
    /\ \E i, j \in Calls :
          /\ i # j
          /\ hist[i].op = "start" /\ hist[i].st = "Idle"
          /\ hist[j].op = "start" /\ hist[j].st = "Idle"

\* ------------------------------------------------------------------------
\* C23
\* ------------------------------------------------------------------------
\* the end-of-stream signals made so far, executed or queued
Ends ==
    Cardinality(Kind({"eos"}))
        + Cardinality({n \in DOMAIN mainq : mainq[n].k = "eos"})

\* the calls made are one start and then finish calls only, on a request
\* that is still connected, and all of them have returned
StartThenFinishes ==
    /\ connected
    /\ Quiescent
    /\ Len(hist) >= 2
    /\ hist[1].op = "start"
    /\ \A i \in 2 .. Len(hist) : hist[i].op = "finish"

\* C23: finish calls that begin on the Streaming executor, one after the
\* other or from two threads at once, produce exactly one end-of-stream
\* signal between them; a finish that begins when no start has set the
\* executor Streaming makes no native call and, when only such calls were
\* made, both flags are still false.
C23_FinishOnce ==
    /\ StartThenFinishes /\ (\E i \in Calls : hist[i].op = "finish" /\ hist[i].st = "Streaming")
       => Ends = 1
    /\ \A i \in Calls : hist[i].op = "finish" /\ hist[i].st = "Idle" => ~Native(i)
    /\ (\A i \in Calls : hist[i].op = "finish" /\ hist[i].st = "Idle") /\ Quiescent
       => ~started /\ ~finished

\* ------------------------------------------------------------------------
\* C24
\* ------------------------------------------------------------------------
\* the stream terminations made so far: end-of-stream signals and error
\* terminations, executed or queued
Terminations ==
    Ends + Cardinality(Kind({"error"}))
         + Cardinality({n \in DOMAIN mainq : mainq[n].k = "error"})

\* C24: when a finish and a reject both begin on the Streaming executor of a
\* connected request, from two threads, the native layer gets exactly one
\* stream termination: one end of stream or one error, not both and not one
\* of them twice.
C24_OneTermination ==
    /\ concurrent
    /\ connected
    /\ Quiescent
    /\ Len(hist) = 3
    /\ hist[1].op = "start"
    /\ Headers = 1
    /\ \E i, j \in 2 .. 3 :
          /\ hist[i].op = "finish" /\ hist[i].st = "Streaming"
          /\ hist[j].op = "reject" /\ hist[j].st = "Streaming"
    => Terminations = 1

\* ------------------------------------------------------------------------
\* C27
\* ------------------------------------------------------------------------
\* call j is a start by the one producer on the Idle executor that has
\* returned without a native call: it did not obtain its transport
FailedStart(j) ==
    /\ ~concurrent
    /\ Completed(j)
    /\ hist[j].op = "start"
    /\ hist[j].st = "Idle"
    /\ ~Native(j)

\* C27: a start that cannot obtain its transport makes no native call and
\* leaves started and finished as they were, so that the executor is still
\* Idle for the next call, and a resolve or reject made next passes the claim
\* of the flags; where the request is still there (WebKitGTK, whose pipe()
\* failed) it is delivered.
C27_FailedStartLeavesIdle ==
    \A j \in Calls :
        FailedStart(j)
        => /\ j = Len(hist) => ~started /\ ~finished
           /\ j < Len(hist) => hist[j + 1].st = "Idle"
           /\ j < Len(hist) /\ Completed(j + 1) /\ hist[j + 1].op \in {"resolve", "reject"}
              => /\ finished
                 /\ backend = "wkg" => Native(j + 1)

\* pipe() failed in a start and the resolve made next was delivered
C27_Witness ==
    /\ backend = "wkg"
    /\ Len(hist) = 2
    /\ FailedStart(1)
    /\ hist[2].op = "resolve"
    /\ \E n \in EventsOf(2) : log[n].k = "response" /\ log[n].r = "ok"

\* ------------------------------------------------------------------------
\* C30
\* ------------------------------------------------------------------------
\* the kinds of the native calls in the order in which they were handed to
\* the native layer: those executed, then those queued for the main thread
Handed ==
    [n \in 1 .. Len(log) + Len(mainq) |->
        IF n <= Len(log) THEN log[n].k ELSE mainq[n - Len(log)].k]

\* only start, write and finish were called, on a connected request
StreamCallsOnly ==
    /\ connected
    /\ \A i \in Calls : hist[i].op \in {"start", "write", "finish"}

\* C30: when start, write and finish are called on the executor of a
\* connected request from two threads in any interleaving, the native calls
\* are at most one header commit, then chunks, then at most one end of
\* stream: every chunk has the header before it and no end of stream
\* before it. Stated for the WKWebView backend, where each of the three
\* operations hands a block with its task call to the main queue.
C30_StreamShape ==
    concurrent /\ StreamCallsOnly /\ backend = "wk"
    => /\ Headers <= 1
       /\ Ends <= 1
       /\ \A n \in DOMAIN Handed :
             Handed[n] = "chunk"
             => /\ \E m \in 1 .. n - 1 : Handed[m] = "header"
                /\ \A m \in 1 .. n - 1 : Handed[m] # "eos"
       /\ \A n \in DOMAIN Handed :
             Handed[n] = "eos" => \A m \in 1 .. n - 1 : Handed[m] # "eos"

\* ------------------------------------------------------------------------
\* C28
\* ------------------------------------------------------------------------
\* C28: in the WKWebView backend no exception raised by a call on a stopped
\* task leaves the adapter: the calls made on a stopped task are those of the
\* blocks run by the main queue, whose guard discards the exception, and the
\* unguarded calls of the resolve and reject lambdas, made under the table
\* lock on a task found in the table, are never made on a stopped task.
C28_NoExceptionEscapes ==
    backend = "wk"
    => /\ ~crashed
       /\ \A n \in DOMAIN log :
             log[n].r # "ok"
             => /\ log[n].k \in {"header", "chunk", "eos", "error"}
                /\ hist[log[n].idx].st \in {"Idle", "Streaming"}
                /\ log[n].k = "error" => hist[log[n].idx].st = "Streaming"

\* the task was stopped with blocks still queued, a block's call was made on
\* the stopped task and its exception discarded, and a resolve or reject made
\* after the stop went through its lambda
C28_Witness ==
    /\ backend = "wk"
    /\ ~crashed
    /\ Quiescent
    /\ \E n \in DOMAIN log : log[n].r = "gone"
    /\ \E i \in Calls :
          /\ hist[i].op \in {"resolve", "reject"}
          /\ ~hist[i].conn
          /\ hist[i].st = "Idle"

\* ------------------------------------------------------------------------
\* C25
\* ------------------------------------------------------------------------
\* C25: in every state in which the executor is Resolved, Rejected or
\* Finished (finished is set) a call of streaming() returns false, and from a
\* state in which a call returns false no step leads to a state in which a
\* call returns true.
C25_StreamingStaysFalse ==
    /\ [](finished => ~streaming)
    /\ [][~streaming => ~streaming']_vars

\* streaming() was called after the stream was finished and returned false
C25_Witness ==
    /\ result = [op |-> "streaming", v |-> FALSE, native |-> FALSE]
    /\ started
    /\ finished
    /\ Ends = 1

\* ------------------------------------------------------------------------
\* C26
\* ------------------------------------------------------------------------
\* this step is a call of streaming() that returned
QueryStep == result'.op = "streaming" /\ result' # result

\* C26: a call of streaming(), in whatever state, leaves started and
\* finished, the task table, the job pointer and the stream transport as they
\* are, and neither executes nor queues a native call.
C26_StreamingIsPure ==
    [][QueryStep => UNCHANGED <<flags, transport, connected, log>>]_vars

\* streaming() was called on a started WKWebView executor whose stream is
\* under way, and returned true
C26_Witness ==
    /\ backend = "wk"
    /\ result = [op |-> "streaming", v |-> TRUE, native |-> FALSE]
    /\ started
    /\ ~finished
    /\ Kind({"chunk"}) # {}
    /\ mainq # <<>>

\* ------------------------------------------------------------------------
\* C29
\* ------------------------------------------------------------------------
RECURSIVE PushedUpTo(_)
\* the bytes handed to push by the first n native calls
PushedUpTo(n) ==
    IF n = 0 THEN <<>>
    ELSE IF log[n].k = "chunk" THEN PushedUpTo(n - 1) \o data_of(log[n].v)
    ELSE PushedUpTo(n - 1)

\* the bytes handed to push so far, in the order of the calls
Pushed == PushedUpTo(Len(log))

RECURSIVE Returned(_)
\* the bytes the first n readData calls returned
Returned(n) == IF n = 0 THEN <<>> ELSE Returned(n - 1) \o reads[n].data

\* C29: the bytes returned by the readData calls made so far, followed by
\* those still in the buffer, are the bytes pushed, in the order pushed; a
\* readData returns the number of bytes it hands over and never 0, and it
\* returns -1 only after close_write, when every byte pushed has been
\* returned by the calls before it.
C29_DeviceKeepsOrder ==
    /\ Returned(Len(reads)) \o m_buffer = Pushed
    /\ \A i \in DOMAIN reads :
          /\ reads[i].ret # 0
          /\ reads[i].ret >= 0 => reads[i].ret = Len(reads[i].data)
          /\ reads[i].ret = -1
             => /\ device.m_finished
                /\ Returned(i - 1) = Pushed

\* two chunks were pushed and read back in pieces that do not follow the
\* chunks, and the read after the last byte reported the end of the stream
C29_Witness ==
    /\ Len(Pushed) = 4
    /\ Len(reads) >= 3
    /\ reads[1].ret = 3
    /\ reads[Len(reads)].ret = -1
    /\ Returned(Len(reads)) = Pushed

\* ------------------------------------------------------------------------
\* C21
\* ------------------------------------------------------------------------
\* this step belongs to the first request: a step of a call on its executor,
\* or the main queue running a block that such a call queued
OwnStep == CallerThreadStep \/ Len(mainq') < Len(mainq)

\* C21: every native call made through the executor of a request acts on that
\* request's own native object, and no step of a call on that executor
\* changes the flags, the transport or the table entry of a second request
\* that is in flight.
C21_RequestsIndependent ==
    /\ [](\A n \in DOMAIN log : log[n].r # "other")
    /\ [][OwnStep => /\ other' = other
                     /\ (other.key \in tasks') = (other.key \in tasks)]_vars

\* ------------------------------------------------------------------------
\* C31
\* ------------------------------------------------------------------------
\* C31: when every call has returned and a resolve or reject made on the
\* request, which is still connected, made no native call, then some call on
\* the executor made one: a delivery, or the header commit of a start.
C31_NoCompletionLost ==
    /\ connected
    /\ Quiescent
    /\ \E j \in Calls : hist[j].op \in {"resolve", "reject"} /\ ~Native(j)
    => log # <<>>

\* ------------------------------------------------------------------------
\* C32
\* ------------------------------------------------------------------------
\* the native calls made on the request job
JobCalls == Kind({"response", "error", "header"})

\* C32: in the Qt backend no call of resolve, reject or start reaches a
\* destroyed job: every call on the job found it alive, a call that began
\* after the destruction made none, a start made by the one producer after
\* the destruction has left started false, and streaming() is false from the
\* destruction on.
C32_NoCallOnDestroyedJob ==
    backend = "qt"
    => /\ \A n \in JobCalls : log[n].r = "ok" /\ hist[log[n].idx].conn
       /\ \A j \in Calls :
             /\ Completed(j)
             /\ j = Len(hist)
             /\ hist[j].op = "start"
             /\ hist[j].st = "Idle"
             /\ ~hist[j].conn
             => ~started
       /\ ~connected => ~streaming

\* the job was destroyed, and a start, a resolve and streaming() were called
\* after that
C32_Witness ==
    /\ backend = "qt"
    /\ ~connected
    /\ Quiescent
    /\ result = [op |-> "streaming", v |-> FALSE, native |-> FALSE]
    /\ \E i, j \in Calls :
          /\ hist[i].op = "start" /\ ~hist[i].conn /\ hist[i].st = "Idle"
          /\ hist[j].op = "reject" /\ ~hist[j].conn /\ hist[j].st = "Idle" /\ ~Native(j)

\* ------------------------------------------------------------------------
\* The ::write loop of the WebKitGTK executor (wkg.scheme.impl.cpp 94-112)
\* ------------------------------------------------------------------------
\* the stashes handed to write(): up to MaxChunk bytes, each byte different
\* from the others so that a byte written twice or out of place shows
Chunks == {[i \in 1 .. n |-> i] : n \in 0 .. MaxChunk}

\* errno after a failed ::write: interrupted, or the reader has gone
Errnos == {"EINTR", "EPIPE"}

\* a step of the loop: it moves the thread and touches the loop's locals
Local(t, l) ==
    /\ pc' = [pc EXCEPT ![t] = l]
    /\ cur' = [cur EXCEPT ![t] = IF l = "idle" THEN 0 ELSE @]
    /\ UNCHANGED <<backend, concurrent, dispatch, hist, m_buffer, other, wake,
                   copies, queue>>

\* "const auto *ptr = data.data(); std::size_t remaining = data.size();"
wkg_write_locals(t) ==
    /\ At(t, "wr_sys")
    /\ \E d \in Chunks : data' = d /\ remaining' = Len(d)
    /\ ptr' = 0
    /\ Local(t, "wr_loop")
    /\ UNCHANGED <<flags, transport, connected, crashed, log, written, errno>>

\* "while (remaining > 0)"
wkg_write_while(t) ==
    /\ At(t, "wr_loop")
    /\ Local(t, IF remaining > 0 THEN "wr_call" ELSE "idle")
    /\ UNCHANGED <<flags, transport, connected, crashed, log, loop>>

\* "auto written = ::write(m_impl->write_fd, ptr, remaining);": the kernel
\* takes some of the bytes, or none, or the call fails and sets errno
wkg_write_call(t) ==
    /\ At(t, "wr_call")
    /\ \/ \E k \in 1 .. remaining :
            /\ written' = k
            /\ Emit("chunk", SubSeq(data, ptr + 1, ptr + k), cur[t], Alive)
            /\ UNCHANGED errno
       \/ /\ written' = 0
          /\ UNCHANGED <<log, errno>>
       \/ /\ written' = -1
          /\ errno' \in Errnos
          /\ UNCHANGED log
    /\ Local(t, "wr_test")
    /\ UNCHANGED <<flags, transport, connected, crashed, data, ptr, remaining>>

\* the test of the result without "ptr += written": the next ::write starts
\* at the same byte again
wkg_write_test_same_ptr(t) ==
    /\ At(t, "wr_test")
    /\ IF written < 0
       THEN /\ Local(t, IF errno = "EINTR" THEN "wr_loop" ELSE "idle")
            /\ UNCHANGED <<ptr, remaining>>
       ELSE /\ ptr' = ptr
            /\ remaining' = remaining - written
            /\ Local(t, "wr_loop")
    /\ UNCHANGED <<flags, transport, connected, crashed, log, data, written, errno>>

\* "if (written < 0) { if (errno == EINTR) continue; break; }
\*  ptr += written; remaining -= written;"
wkg_write_test(t) ==
    /\ At(t, "wr_test")
    /\ IF written < 0
       THEN /\ Local(t, IF errno = "EINTR" THEN "wr_loop" ELSE "idle")
            /\ UNCHANGED <<ptr, remaining>>
       ELSE /\ ptr' = ptr + written
            /\ remaining' = remaining - written
            /\ Local(t, "wr_loop")
    /\ UNCHANGED <<flags, transport, connected, crashed, log, data, written, errno>>

\* the producer calls write() up to MaxWrites times
write_some(t) ==
    /\ Cardinality({j \in DOMAIN hist : hist[j].op = "write"}) < MaxWrites
    /\ write(t, Len(hist) + 1)

\* one producer starts a stream, writes chunks and finishes; the thread
\* that is inside the loop keeps running
WriteInit == Init /\ backend = "wkg" /\ ~concurrent

WriteLoop ==
    \E t \in Threads :
        wkg_write_while(t) \/ wkg_write_call(t) \/ wkg_write_test(t)

WriteNext ==
    \/ \E t \in Threads, a \in StartWith : start(t, a)
    \/ \E t \in Threads : start_fin(t)
    \/ \E t \in Threads : wkg_start_pipe(t)
    \/ \E t \in Threads : wkg_start_hdr(t)
    \/ \E t \in Threads : write_some(t)
    \/ \E t \in Threads : write_fin(t)
    \/ \E t \in Threads : wkg_write_chk(t)
    \/ \E t \in Threads : wkg_write_locals(t)
    \/ \E t \in Threads : wkg_write_while(t)
    \/ \E t \in Threads : wkg_write_call(t)
    \/ \E t \in Threads : wkg_write_test(t)
    \/ \E t \in Threads : finish(t)
    \/ \E t \in Threads : finish_claim(t)
    \/ \E t \in Threads : wkg_finish_chk(t)
    \/ \E t \in Threads : wkg_finish_close(t)
    \/ \E t \in Threads : wkg_finish_store(t)

WriteSpec == WriteInit /\ [][WriteNext]_vars /\ WF_vars(WriteLoop)

\* ------------------------------------------------------------------------
\* C33
\* ------------------------------------------------------------------------
\* the bytes the first n native calls put into the pipe for call j
RECURSIVE SentUpTo(_, _)
SentUpTo(j, n) ==
    IF n = 0 THEN <<>>
    ELSE IF log[n].k = "chunk" /\ log[n].idx = j
    THEN SentUpTo(j, n - 1) \o log[n].v
    ELSE SentUpTo(j, n - 1)

Sent(j) == SentUpTo(j, Len(log))

\* the thread is inside the loop
InLoop == pc["t1"] \in {"wr_loop", "wr_call", "wr_test"}

\* the last ::write failed with an error other than EINTR
Broken == written < 0 /\ errno # "EINTR"

\* the last call is a write that found the executor Streaming and has
\* reached the loop or left it
LastIsWrite ==
    /\ hist # <<>>
    /\ hist[Len(hist)].op = "write"
    /\ hist[Len(hist)].st = "Streaming"
    /\ InLoop \/ pc["t1"] = "idle"

\* what the loop guarantees for the bytes of that write
WriteSafe ==
    LastIsWrite
    => LET j == Len(hist) IN
       /\ ptr + remaining = Len(data)
       /\ Sent(j) = SubSeq(data, 1, Len(Sent(j)))
       /\ Len(Sent(j)) = ptr + (IF pc["t1"] = "wr_test" /\ written > 0
                                THEN written ELSE 0)
       /\ \A n \in EventsOf(j) : log[n].k = "chunk"
       /\ pc["t1"] = "idle" /\ ~Broken => Sent(j) = data
       /\ started /\ ~finished /\ write_fd \in Fds /\ pipe = "open"

\* no ::write returned 0
NeverZero == ~(pc["t1"] = "wr_test" /\ written = 0)
\* the ::write that was just made did not fail with EINTR
NotInterrupted == ~(pc["t1"] = "wr_test" /\ written < 0 /\ errno = "EINTR")

\* C33 as stated: a write on a Streaming executor puts the bytes of the chunk
\* into the pipe in order and once each, resuming after a partial write and
\* retrying after EINTR; after another error it returns with the rest
\* unwritten, making no other native call and leaving started, finished and
\* the descriptor as they were; and the loop ends if every ::write fails or
\* writes at least one byte.
C33_WriteLoopEnds ==
    /\ []WriteSafe
    /\ []NeverZero => (InLoop ~> pc["t1"] = "idle")

\* C33 (amended): the same, the loop ending if no ::write returns 0 and only
\* finitely many of them fail with EINTR.
C33_WriteLoopEndsUnlessInterrupted ==
    /\ []WriteSafe
    /\ []NeverZero /\ <>[]NotInterrupted => (InLoop ~> pc["t1"] = "idle")

\* a write of three bytes has returned after a partial write and an EINTR,
\* all bytes written
C33_Witness ==
    /\ LastIsWrite
    /\ pc["t1"] = "idle"
    /\ Len(data) = MaxChunk
    /\ Sent(Len(hist)) = data
    /\ Cardinality(EventsOf(Len(hist))) > 1
    /\ errno = "EINTR"

\* ------------------------------------------------------------------------
\* The Qt stream device and its reader, step by step (part_003 29-72, 341-345)
\* ------------------------------------------------------------------------
\* a step of the producer inside the device
Dev(t, l) ==
    /\ pc' = [pc EXCEPT ![t] = l]
    /\ cur' = [cur EXCEPT ![t] = IF l = "idle" THEN 0 ELSE @]
    /\ UNCHANGED <<backend, concurrent, loop, copies, queue, dispatch, hist, other>>

\* m_cv.notify_one(): a reader that waits is made runnable
notify_one == reader' = [reader EXCEPT !.at = IF @ = "asleep" THEN "woken" ELSE @]

\* "m_cv.wait(lock, pred)": the predicate, read under m_mutex
pred == m_buffer # <<>> \/ device.m_finished

\* push: "{ lock_guard; m_buffer.insert(...); }"
dev_push_insert(t) ==
    /\ At(t, "wr_push")
    /\ push(t, hist[cur[t]].arg)
    /\ Dev(t, "wr_notify")
    /\ UNCHANGED <<flags, write_fd, pipe, tasks, mainq, request, connected, wake>>

\* push: "m_cv.notify_one();"
dev_push_notify(t) ==
    /\ At(t, "wr_notify")
    /\ notify_one
    /\ Dev(t, "idle")
    /\ UNCHANGED <<flags, transport, connected, crashed, log, m_buffer, handler>>

\* close_write called by finish: "{ lock_guard; m_finished = true; }"
dev_close_set(t) ==
    /\ At(t, "fi_cw")
    /\ close_write(t)
    /\ Dev(t, "fi_notify")
    /\ UNCHANGED <<flags, write_fd, pipe, tasks, mainq, request, connected,
                   m_buffer, wake>>

\* close_write: "m_cv.notify_one();"
dev_close_notify(t) ==
    /\ At(t, "fi_notify")
    /\ notify_one
    /\ Dev(t, "idle")
    /\ UNCHANGED <<flags, transport, connected, crashed, log, m_buffer, handler>>

\* a step of the thread that destroys the job
Destroying ==
    UNCHANGED <<backend, concurrent, loop, copies, queue, flags, write_fd, pipe, tasks, mainq,
                request, connected, crashed, dispatch, m_buffer, other, pc, cur,
                hist, log>>

\* the destroyed handler, after assign(nullptr): device->close_write()
handler_close ==
    /\ ~crashed
    /\ backend = "qt"
    /\ ~connected
    /\ handler = "none"
    /\ device' = [device EXCEPT !.m_finished = TRUE]
    /\ handler' = "notify"
    /\ UNCHANGED reader
    /\ Destroying

handler_notify ==
    /\ ~crashed
    /\ handler = "notify"
    /\ notify_one
    /\ handler' = "delete"
    /\ UNCHANGED device
    /\ Destroying

\* the handler has returned: ~QObject of the job deletes its children, the
\* device among them ("new stream_device{raw}")
job_deletes_device ==
    /\ ~crashed
    /\ handler = "delete"
    /\ device' = [device EXCEPT !.alive = FALSE]
    /\ handler' = "done"
    /\ UNCHANGED reader
    /\ Destroying

\* a step of the engine's thread inside readData
Reading ==
    UNCHANGED <<backend, concurrent, loop, copies, queue, flags, transport, connected,
                m_callbacks, native, invoked, body, result, other, pc, cur, hist,
                log, handler>>

\* "if (m_buffer.empty()) return m_finished ? -1 : 0; ... return to_read;"
returns(max) ==
    /\ IF m_buffer = <<>>
       THEN /\ reads' = Append(reads, [ret |-> IF device.m_finished THEN -1 ELSE 0,
                                       data |-> <<>>])
            /\ UNCHANGED m_buffer
       ELSE /\ reads' = Append(reads, [ret |-> taken(m_buffer, max).ret,
                                       data |-> taken(m_buffer, max).data])
            /\ m_buffer' = taken(m_buffer, max).left
    /\ reader' = [at |-> "out", max |-> 0]

\* readData is called on the device that reply() gave to the engine: under
\* m_mutex the predicate holds and the call returns, or the thread goes to
\* sleep on m_cv, releasing the mutex
rd_call(max) ==
    /\ ~crashed
    /\ backend = "qt"
    /\ device.alive
    /\ \E n \in DOMAIN log : log[n].k = "header"
    /\ reader.at = "out"
    /\ Len(reads) < MaxReads
    /\ IF pred
       THEN returns(max)
       ELSE /\ reader' = [at |-> "asleep", max |-> max]
            /\ UNCHANGED <<reads, m_buffer>>
    /\ UNCHANGED crashed
    /\ Reading

\* the reader runs again: it takes m_mutex and tests the predicate.  On a
\* device that was deleted meanwhile this is a use of freed memory: the
\* process dies or the call returns what it finds there.
rd_wake ==
    /\ ~crashed
    /\ reader.at = "woken"
    /\ IF device.alive
       THEN /\ IF pred
               THEN returns(reader.max)
               ELSE /\ reader' = [reader EXCEPT !.at = "asleep"]
                    /\ UNCHANGED <<reads, m_buffer>>
            /\ UNCHANGED crashed
       ELSE \/ /\ crashed' = TRUE
               /\ UNCHANGED <<reads, m_buffer, reader>>
            \/ /\ returns(reader.max)
               /\ UNCHANGED crashed
    /\ Reading

\* a condition variable may wake its waiter without a notification
rd_spurious ==
    /\ ~crashed
    /\ reader.at = "asleep"
    /\ reader' = [reader EXCEPT !.at = "woken"]
    /\ UNCHANGED <<reads, m_buffer, crashed>>
    /\ Reading

\* one producer streams, the engine reads, the job may be destroyed; a
\* thread that is inside the device keeps running, and so does the
\* destruction of the job once it has begun
WakeInit == Init /\ backend = "qt" /\ ~concurrent

Notifies == \E t \in Threads : dev_push_notify(t) \/ dev_close_notify(t)
Destruction == handler_close \/ handler_notify \/ job_deletes_device

WakeNext ==
    \/ \E t \in Threads, a \in StartWith : start(t, a)
    \/ \E t \in Threads : start_fin(t)
    \/ \E t \in Threads : qt_start_reply(t)
    \/ \E t \in Threads : write(t, Len(hist) + 1)
    \/ \E t \in Threads : write_fin(t)
    \/ \E t \in Threads : dev_push_insert(t)
    \/ \E t \in Threads : dev_push_notify(t)
    \/ \E t \in Threads : finish(t)
    \/ \E t \in Threads : finish_claim(t)
    \/ \E t \in Threads : dev_close_set(t)
    \/ \E t \in Threads : dev_close_notify(t)
    \/ qt_destroyed
    \/ handler_close
    \/ handler_notify
    \/ job_deletes_device
    \/ \E max \in ReadSizes : rd_call(max)
    \/ rd_wake
    \/ rd_spurious

WakeSpec ==
    /\ WakeInit
    /\ [][WakeNext]_vars
    /\ WF_vars(Notifies)
    /\ WF_vars(Destruction)
    /\ WF_vars(rd_wake)

\* ------------------------------------------------------------------------
\* C34
\* ------------------------------------------------------------------------
\* the reader sleeps inside readData
Blocked == reader.at = "asleep"
\* the reader's call has returned
Released == reader.at = "out"

\* the producer is out of the way when the job is destroyed: it is inside no
\* call then and makes none afterwards
ProducerQuiet ==
    ~connected => pc["t1"] = "idle" /\ \A j \in DOMAIN hist : hist[j].conn

\* C34: a reader blocked in readData is released after a push, which gives
\* it bytes, and after a close_write, which gives it -1 once the buffer is
\* empty, and readData never returns 0; the destruction of the job calls
\* close_write, so a reader blocked when the request is cancelled is
\* released too.  Stated for the runs in which the producer does not touch
\* the device once the job is destroyed.
C34_ReaderIsReleased ==
    []ProducerQuiet
    => /\ [](\A n \in DOMAIN reads : reads[n].ret # 0)
       /\ (Blocked /\ pred) ~> Released
       /\ (Blocked /\ ~connected) ~> Released

\* ------------------------------------------------------------------------
\* C35
\* ------------------------------------------------------------------------
\* the request's entry is in the handle table
Present == Handle \in tasks

\* a native call of one of the kinds that end the request was made or is
\* queued for the main thread, or a finish or post-start reject has erased
\* the entry and is about to queue its block
Ended ==
    \/ \E n \in DOMAIN log : log[n].k \in {"response", "error", "eos"}
    \/ \E n \in DOMAIN mainq : mainq[n].k \in {"error", "eos"}
    \/ \E t \in Threads : pc[t] \in {"rej_disp", "fi_disp"}

\* C35: in the WKWebView backend the entry of the request is in the handle
\* table exactly until a resolve or a pre-stream reject has delivered, a
\* finish or a post-start reject has taken it out, or stopURLSchemeTask has
\* run; from then on it is absent, it is never entered again, and
\* streaming() is false.
C35_EntryUntilCompletion ==
    /\ [](backend = "wk" => (Present <=> connected /\ ~Ended))
    /\ [](backend = "wk" /\ ~Present => ~streaming)
    /\ [][~Present => ~Present']_vars

\* the entry was taken out by a finish while the task was alive
C35_Witness ==
    /\ backend = "wk"
    /\ connected
    /\ ~Present
    /\ Quiescent
    /\ \E n \in DOMAIN log : log[n].k = "eos"
    /\ \E j \in Calls : hist[j].op = "finish" /\ hist[j].st = "Streaming"

\* ------------------------------------------------------------------------
\* C36
\* ------------------------------------------------------------------------
\* a step that adds resolver r for instance w keeps the resolver w has, and
\* installs r if w has none
AddKeeps ==
    \A w \in Instances, r \in Resolvers :
        add_callback(w, r)
        => /\ w \in DOMAIN m_callbacks'
           /\ m_callbacks'[w] = IF w \in DOMAIN m_callbacks THEN m_callbacks[w] ELSE r
           /\ \A v \in Instances \ {w} :
                 /\ v \in DOMAIN m_callbacks' <=> v \in DOMAIN m_callbacks
                 /\ v \in DOMAIN m_callbacks => m_callbacks'[v] = m_callbacks[v]

\* a step that deletes the resolver of w leaves w without one and the others
\* as they were
DelRemoves ==
    \A w \in Instances :
        del_callback(w)
        => /\ w \notin DOMAIN m_callbacks'
           /\ \A v \in Instances \ {w} :
                 /\ v \in DOMAIN m_callbacks' <=> v \in DOMAIN m_callbacks
                 /\ v \in DOMAIN m_callbacks => m_callbacks'[v] = m_callbacks[v]

\* a request that is dispatched goes to the resolver its instance has at
\* that moment
DispatchedToOwn ==
    native = <<>> /\ native' # <<>> /\ native'[1].known
    => /\ native'[1].view \in DOMAIN m_callbacks
       /\ native'[1].to = m_callbacks[native'[1].view]

\* C36: the registry holds at most one resolver per instance: add_callback
\* for an instance that has one leaves it in place, del_callback removes it
\* and does nothing for an instance without one, an add after a del installs
\* the new resolver, and a request of an instance is dispatched to the
\* resolver of that instance.
C36_OneResolverPerInstance ==
    /\ [](DOMAIN m_callbacks \subseteq Instances)
    /\ [][AddKeeps /\ DelRemoves /\ DispatchedToOwn]_vars

\* the two instances have different resolvers and a request of w2 was
\* dispatched to the resolver of w2
C36_Witness ==
    /\ backend # "qt"
    /\ DOMAIN m_callbacks = Instances
    /\ m_callbacks["w2"] = "r2"
    /\ m_callbacks["w1"] = "r1"
    /\ native # <<>>
    /\ native[1].view = "w2"
    /\ native[1].to = "r2"

\* ------------------------------------------------------------------------
\* The life of the executor's copies (wkg.scheme.impl.cpp 14-17)
\* ------------------------------------------------------------------------
\* what the copy constructor and the destructor leave alone: every field of
\* executor::impl and the native side
Lifeless ==
    UNCHANGED <<backend, concurrent, loop, wake, queue, flags, transport, connected,
                crashed, dispatch, m_buffer, other, pc, cur, hist, log>>

\* "executor::executor(const executor &) = default": one more shared_ptr to
\* the impl
executor_copy ==
    /\ ~crashed
    /\ copies.live > 0
    /\ copies.made < MaxCopies
    /\ copies' = [live |-> copies.live + 1, made |-> copies.made + 1]
    /\ Lifeless

\* "executor::~executor() = default": the shared_ptr is released; with the
\* last one the impl is destroyed, whose members are two std::function, the
\* request reference, the int write_fd and the two flags: nothing is closed
executor_destroy ==
    /\ ~crashed
    /\ copies.live > 0
    /\ \A t \in Threads : pc[t] = "idle"
    /\ copies' = [copies EXCEPT !.live = @ - 1]
    /\ Lifeless

\* a call is made through a copy that is alive
Held(A) == copies.live > 0 /\ A

\* one producer uses the executor and drops its copies; a call that has
\* begun runs to its end and every copy is destroyed in the end
LifeInit == Init /\ backend = "wkg" /\ ~concurrent

LifeCalls ==
    \/ \E t \in Threads : start_fin(t)
    \/ \E t \in Threads : wkg_start_pipe(t)
    \/ \E t \in Threads : wkg_start_hdr(t)
    \/ \E t \in Threads : write_fin(t)
    \/ \E t \in Threads : wkg_write_chk(t)
    \/ \E t \in Threads : wkg_write_sys(t)
    \/ \E t \in Threads : finish_claim(t)
    \/ \E t \in Threads : wkg_finish_chk(t)
    \/ \E t \in Threads : wkg_finish_close(t)
    \/ \E t \in Threads : wkg_finish_store(t)
    \/ \E t \in Threads : wkg_reject_chk(t)
    \/ \E t \in Threads : wkg_reject_close(t)
    \/ \E t \in Threads : wkg_reject_store(t)
    \/ \E t \in Threads : wkg_reject_fin(t)
    \/ \E t \in Threads : reject_claim(t)
    \/ \E t \in Threads : reject_deliver(t)

LifeNext ==
    \/ \E t \in Threads, a \in StartWith : Held(start(t, a))
    \/ \E t \in Threads : Held(write(t, Len(hist) + 1))
    \/ \E t \in Threads : Held(finish(t))
    \/ \E t \in Threads, a \in RejectWith : Held(reject(t, a))
    \/ LifeCalls
    \/ executor_copy
    \/ executor_destroy

LifeSpec ==
    /\ LifeInit
    /\ [][LifeNext]_vars
    /\ WF_vars(LifeCalls)
    /\ WF_vars(executor_destroy)

\* ------------------------------------------------------------------------
\* C37
\* ------------------------------------------------------------------------
\* the close calls made on the descriptor of the pipe
Closes == Kind({"eos"})

\* C37: in the WebKitGTK backend the write end of the pipe opened by a
\* successful start is closed in the end, and closed once: by finish, by a
\* reject after the start, or at the latest when the last copy of the
\* executor is destroyed.
C37_DescriptorClosedOnce ==
    /\ [](Cardinality(Closes) <= 1)
    /\ [](\A n \in Closes : log[n].r \in {"ok", "gone"})
    /\ (pipe = "open") ~> (pipe = "closed")

\* ------------------------------------------------------------------------
\* DataQueue of the prototypes (01-scheme-binary/main.cpp 11-40 and 325-375,
\* 03-scheme-to-sab/main.cpp 13-52): push, try_pop, wait_pop and close of the
\* three variants in one queue.  Each body runs under m_mutex, so each is one
\* step; push and close notify after they have released the mutex.
\* ------------------------------------------------------------------------
\* a step of the queue leaves the scheme layer alone
Queueing ==
    UNCHANGED <<backend, concurrent, loop, wake, copies, flags, transport,
                connected, crashed, dispatch, m_buffer, other, pc, cur, hist, log>>

\* the pop that takes the element pushed last
pop_back(q) == [v |-> q[Len(q)], left |-> SubSeq(q, 1, Len(q) - 1)]

\* "auto data = std::move(m_queue.front()); m_queue.pop_front();"
pop_front(q) == [v |-> Head(q), left |-> Tail(q)]

\* m_cv.notify_one() / notify_all(): the one waiter is made runnable
notified == [at EXCEPT !.waiter = IF @ = "asleep" THEN "woken" ELSE @]

\* the predicate of wait_for: "!m_queue.empty() || m_closed"
queue_pred == m_queue # <<>> \/ m_closed

\* a pop returns under the mutex: the front element, or no value
pop_returns(op) ==
    IF m_queue = <<>>
    THEN /\ pops' = Append(pops, [op |-> op, v |-> 0, empty |-> TRUE])
         /\ UNCHANGED m_queue
    ELSE /\ pops' = Append(pops, [op |-> op, v |-> pop_front(m_queue).v,
                                  empty |-> FALSE])
         /\ m_queue' = pop_front(m_queue).left

\* push: "{ lock_guard; m_queue.push_back(std::move(data)); }"
dq_push ==
    /\ at.pusher = "idle"
    /\ pushed < MaxPush
    /\ pushed' = pushed + 1
    /\ m_queue' = Append(m_queue, pushed + 1)
    /\ at' = [at EXCEPT !.pusher = "notify"]
    /\ UNCHANGED <<m_closed, pops>>
    /\ Queueing

\* push: "m_cv.notify_one();"
dq_push_notify ==
    /\ at.pusher = "notify"
    /\ at' = [notified EXCEPT !.pusher = "idle"]
    /\ UNCHANGED <<m_queue, m_closed, pushed, pops>>
    /\ Queueing

\* close: "m_closed = true;", an atomic store made without the mutex
dq_close ==
    /\ at.closer = "idle"
    /\ ~m_closed
    /\ m_closed' = TRUE
    /\ at' = [at EXCEPT !.closer = "notify"]
    /\ UNCHANGED <<m_queue, pushed, pops>>
    /\ Queueing

\* close: "m_cv.notify_all();"
dq_close_notify ==
    /\ at.closer = "notify"
    /\ at' = [notified EXCEPT !.closer = "idle"]
    /\ UNCHANGED <<m_queue, m_closed, pushed, pops>>
    /\ Queueing

\* try_pop
dq_try_pop ==
    /\ Len(pops) < MaxPops
    /\ pop_returns("try_pop")
    /\ UNCHANGED <<m_closed, pushed, at>>
    /\ Queueing

\* wait_pop is called: under the mutex the predicate holds and the call
\* returns, or the thread sleeps on m_cv
dq_wait_pop ==
    /\ at.waiter = "out"
    /\ Len(pops) < MaxPops
    /\ IF queue_pred
       THEN pop_returns("wait_pop") /\ UNCHANGED at
       ELSE at' = [at EXCEPT !.waiter = "asleep"] /\ UNCHANGED <<m_queue, pops>>
    /\ UNCHANGED <<m_closed, pushed>>
    /\ Queueing

\* wait_pop after a notification: the predicate is tested again
dq_wait_wake ==
    /\ at.waiter = "woken"
    /\ IF queue_pred
       THEN pop_returns("wait_pop") /\ at' = [at EXCEPT !.waiter = "out"]
       ELSE at' = [at EXCEPT !.waiter = "asleep"] /\ UNCHANGED <<m_queue, pops>>
    /\ UNCHANGED <<m_closed, pushed>>
    /\ Queueing

\* wait_pop when the timeout has passed: wait_for returns the predicate, and
\* the call returns no value if it is false
dq_wait_timeout ==
    /\ at.waiter \in {"asleep", "woken"}
    /\ IF queue_pred
       THEN pop_returns("wait_pop")
       ELSE /\ pops' = Append(pops, [op |-> "wait_pop", v |-> 0, empty |-> TRUE])
            /\ UNCHANGED m_queue
    /\ at' = [at EXCEPT !.waiter = "out"]
    /\ UNCHANGED <<m_closed, pushed>>
    /\ Queueing

\* the queue is empty and open, and the scheme layer stays as it is
QueueInit == Init /\ backend = "wkg" /\ ~concurrent

QueueNext ==
    \/ dq_push
    \/ dq_push_notify
    \/ dq_close
    \/ dq_close_notify
    \/ dq_try_pop
    \/ dq_wait_pop
    \/ dq_wait_wake
    \/ dq_wait_timeout

QueueSpec == QueueInit /\ [][QueueNext]_vars

\* ------------------------------------------------------------------------
\* C38
\* ------------------------------------------------------------------------
\* the elements the first n pops returned, in order
RECURSIVE GotUpTo(_)
GotUpTo(n) ==
    IF n = 0 THEN <<>>
    ELSE IF pops[n].v = 0 THEN GotUpTo(n - 1)
    ELSE Append(GotUpTo(n - 1), pops[n].v)

Got == GotUpTo(Len(pops))

\* C38: the DataQueue is a FIFO under any interleaving of push, try_pop and
\* wait_pop: the elements returned by the pops, followed by the elements
\* still queued, are the elements pushed, each once and in the order of the
\* pushes; and try_pop returns no value exactly when it finds the queue
\* empty under the mutex.
C38_QueueIsFifo ==
    /\ Got \o m_queue = [i \in 1 .. pushed |-> i]
    /\ \A n \in DOMAIN pops :
          pops[n].op = "try_pop" => (pops[n].v = 0 <=> pops[n].empty)

\* every element was pushed; a try_pop found the queue empty, and pops of
\* both kinds returned elements
C38_Witness ==
    /\ pushed = MaxPush
    /\ Len(Got) >= 2
    /\ \E n \in DOMAIN pops : pops[n].op = "try_pop" /\ pops[n].v = 0
    /\ \E n \in DOMAIN pops : pops[n].op = "try_pop" /\ pops[n].v # 0
    /\ \E n \in DOMAIN pops : pops[n].op = "wait_pop" /\ pops[n].v # 0

====
